---- MODULE Spec2Model ----
(***************************************************************************)
(* A model of the resume analysis engine of src/app.py: the extractors     *)
(* (personal info, summary, work experience, education, skills, projects,  *)
(* additional info), the two experience calculators, the assembly of the   *)
(* profile in analyze_resume, and the request handler analyze_resume       *)
(* around them: the filename test, the temporary file, the text            *)
(* extraction, the rejection of short texts, the except clauses and the    *)
(* finally clause.                                                         *)
(*                                                                         *)
(* Python strings are TLA+ strings; a character is a string of length 1    *)
(* (SubSeq(s, i, i)).  Three non-ASCII characters of the source cannot be  *)
(* written in a TLA+ string and are stood for by ASCII characters that the *)
(* input pools use for nothing else:                                       *)
(*     BULLET  ">"  for U+2022,   ENDASH "<"  for U+2013,                  *)
(*     EMDASH  "}"  for U+2014.                                            *)
(* None of the three is a word character, a space, or a member of any      *)
(* character class of the source other than the ones that name it.         *)
(* Regular expressions are values (trees) matched by a backtracking        *)
(* matcher with Python's priorities (leftmost start, greedy repetition,    *)
(* alternatives in order).                                                 *)
(***************************************************************************)
EXTENDS Integers, Sequences, FiniteSets, TLC

VARIABLES
    text,              \* resume_text, the input of every extractor
    now,               \* datetime.now(): [year, month, day]
    hash_seed,         \* the string hash seed of the running Python process
    run,               \* 1: first analysis of text, 2: second analysis
    pc,                \* the next statement of the engine to run
    personal_info, summary, work_experience, education, skills, projects,
    additional_info, experience_level, total_experience,
    structured_data,   \* the assembled profile of the current run
    first_data,        \* the assembled profile of run 1, kept for comparison
    request            \* the request analyze_resume is serving, or NoRequest

vars == <<text, now, hash_seed, run, pc, personal_info, summary,
          work_experience, education, skills, projects, additional_info,
          experience_level, total_experience, structured_data, first_data, request>>

---------------------------------------------------------------------------
(* Characters and strings (str methods of Python).                         *)

BULLET == ">"
ENDASH == "<"
EMDASH == "}"

\* s[a-1:b] for 1 <= a, b <= len(s): the empty string when a > b
Sub(s, a, b) == IF a > b THEN "" ELSE SubSeq(s, a, b)
At(s, i) == SubSeq(s, i, i)
CharSet(s) == {At(s, i) : i \in 1..Len(s)}

Uppers == "ABCDEFGHIJKLMNOPQRSTUVWXYZ"
Lowers == "abcdefghijklmnopqrstuvwxyz"
Letters == CharSet(Uppers) \cup CharSet(Lowers)
Digits == CharSet("0123456789")
WordChars == Letters \cup Digits \cup {"_"}
Spaces == {" ", "\t", "\n", "\r", "\f"}

\* c.lower() and c.upper() of one character
LowerChar(c) ==
    IF c \in CharSet(Uppers) THEN At(Lowers, CHOOSE i \in 1..26 : At(Uppers, i) = c) ELSE c
UpperChar(c) ==
    IF c \in CharSet(Lowers) THEN At(Uppers, CHOOSE i \in 1..26 : At(Lowers, i) = c) ELSE c

\* str.lower()
RECURSIVE Lower(_)
Lower(s) ==
    IF Len(s) = 0 THEN ""
    ELSE IF Len(s) = 1 THEN LowerChar(s)
    ELSE LET h == Len(s) \div 2
         IN Lower(Sub(s, 1, h)) \o Lower(Sub(s, h + 1, Len(s)))

\* str.title(): the first letter of every run of letters in upper case, the
\* other letters in lower case.
RECURSIVE TitleFrom(_, _)
TitleFrom(s, i) ==
    IF i > Len(s) THEN ""
    ELSE LET c == At(s, i)
             start == i = 1 \/ At(s, i - 1) \notin Letters
         IN (IF start THEN UpperChar(c) ELSE LowerChar(c)) \o TitleFrom(s, i + 1)
Title(s) == TitleFrom(s, 1)

\* sub in s
Contains(sub, s) ==
    \E i \in 1..(Len(s) - Len(sub) + 1) : Sub(s, i, i + Len(sub) - 1) = sub

\* any(k in s for k in ks)
ContainsAny(ks, s) == \E k \in ks : Contains(k, s)

\* s.startswith(p)
StartsWith(s, p) == Len(s) >= Len(p) /\ Sub(s, 1, Len(p)) = p

\* s.endswith(p)
EndsWith(s, p) == Len(s) >= Len(p) /\ Sub(s, Len(s) - Len(p) + 1, Len(s)) = p

\* s.strip()
Strip(s) ==
    LET keep == {i \in 1..Len(s) : At(s, i) \notin Spaces}
    IN IF keep = {} THEN ""
       ELSE Sub(s, CHOOSE i \in keep : \A j \in keep : i <= j,
                      CHOOSE i \in keep : \A j \in keep : i >= j)

\* s.split(sep) for a one-character sep: the pieces between the separators.
SplitChar(s, sep) ==
    LET at == {i \in 1..Len(s) : At(s, i) = sep}
        cut == at \cup {0, Len(s) + 1}
        NextCut(i) == CHOOSE j \in cut : j > i /\ \A k \in cut : k > i => j <= k
        RECURSIVE From(_)
        From(i) == <<Sub(s, i + 1, NextCut(i) - 1)>>
                   \o (IF NextCut(i) = Len(s) + 1 THEN <<>> ELSE From(NextCut(i)))
    IN From(0)

\* s.split(): the pieces between runs of whitespace, none of them empty.
SplitWhite(s) ==
    LET starts == {i \in 1..Len(s) :
                     At(s, i) \notin Spaces /\ (i = 1 \/ At(s, i - 1) \in Spaces)}
        EndOf(i) == CHOOSE j \in i..Len(s) :
                       /\ \A k \in i..j : At(s, k) \notin Spaces
                       /\ (j = Len(s) \/ At(s, j + 1) \in Spaces)
        RECURSIVE Upto(_)
        Upto(from) ==
            LET later == {i \in starts : i >= from}
            IN IF later = {} THEN <<>>
               ELSE LET i == CHOOSE x \in later : \A y \in later : x <= y
                    IN <<Sub(s, i, EndOf(i))>> \o Upto(EndOf(i) + 1)
    IN Upto(1)

---------------------------------------------------------------------------
(* Regular expressions (module re).  A pattern is a tree:                  *)
(*   [k |-> "set", cs |-> S]             one character of S                *)
(*   [k |-> "nset", cs |-> S]            one character not in S            *)
(*   [k |-> "lit", s |-> str]            the characters of str             *)
(*   [k |-> "liti", s |-> str]           the same under re.IGNORECASE      *)
(*   [k |-> "cat", rs |-> <<r1, ..>>]    r1 r2 ...                         *)
(*   [k |-> "alt", rs |-> <<r1, ..>>]    r1|r2|...                         *)
(*   [k |-> "rep", r |-> r, lo, hi]      r{lo,hi}, greedy; hi = -1: no max *)
(*   [k |-> "wb"], [k |-> "bol"], [k |-> "eol"]     \b, ^, $               *)
(* Positions are 1-based; a match from i ends at the position after its    *)
(* last character.  Ends(r, s, i) lists the ends of the matches of r from  *)
(* i in the order in which a backtracking matcher tries them, so that its  *)
(* first element is the end of the match Python reports.  The repeated     *)
(* pattern of a "rep" is a character class, or the "rep" is optional       *)
(* (r?): the source has no other repetition.                               *)

NoMatch == -1

RSet(S) == [k |-> "set", cs |-> S]
RNot(S) == [k |-> "nset", cs |-> S]
RLit(str) == [k |-> "lit", s |-> str]
RLitI(str) == [k |-> "liti", s |-> str]
RCat(rs) == [k |-> "cat", rs |-> rs]
RAlt(rs) == [k |-> "alt", rs |-> rs]
RRep(r, lo, hi) == [k |-> "rep", r |-> r, lo |-> lo, hi |-> hi]
RStar(r) == RRep(r, 0, -1)
RPlus(r) == RRep(r, 1, -1)
ROpt(r) == RRep(r, 0, 1)
RWordB == [k |-> "wb"]
RBol == [k |-> "bol"]
REol == [k |-> "eol"]

IsWordAt(s, i) == i >= 1 /\ i <= Len(s) /\ At(s, i) \in WordChars

\* Whether the character class r (a "set" or an "nset") has the character
\* at position j of s.
InClass(r, s, j) ==
    /\ j >= 1 /\ j <= Len(s)
    /\ IF r.k = "set" THEN At(s, j) \in r.cs ELSE At(s, j) \notin r.cs

\* The number of consecutive characters of class r from position i of s.
RunLen(r, s, i) ==
    LET stop == CHOOSE j \in i..(Len(s) + 1) :
                   /\ ~InClass(r, s, j)
                   /\ \A k \in i..(j - 1) : InClass(r, s, k)
    IN stop - i

\* seqs[lo] \o ... \o seqs[hi]
RECURSIVE ConcatRange(_, _, _)
ConcatRange(seqs, lo, hi) ==
    IF lo > hi THEN <<>>
    ELSE IF lo = hi THEN seqs[lo]
    ELSE LET mid == (lo + hi) \div 2
         IN ConcatRange(seqs, lo, mid) \o ConcatRange(seqs, mid + 1, hi)
ConcatAll(seqs) == ConcatRange(seqs, 1, Len(seqs))

RECURSIVE Ends(_, _, _)
RECURSIVE EndsCat(_, _, _, _)
Ends(r, s, i) ==
    CASE r.k \in {"set", "nset"} -> IF InClass(r, s, i) THEN <<i + 1>> ELSE <<>>
      [] r.k = "lit" ->
           IF i + Len(r.s) - 1 <= Len(s) /\ Sub(s, i, i + Len(r.s) - 1) = r.s
           THEN <<i + Len(r.s)>> ELSE <<>>
      [] r.k = "liti" ->
           IF i + Len(r.s) - 1 <= Len(s)
              /\ Lower(Sub(s, i, i + Len(r.s) - 1)) = Lower(r.s)
           THEN <<i + Len(r.s)>> ELSE <<>>
      [] r.k = "wb" -> IF IsWordAt(s, i - 1) # IsWordAt(s, i) THEN <<i>> ELSE <<>>
      [] r.k = "bol" -> IF i = 1 THEN <<i>> ELSE <<>>
      [] r.k = "eol" ->
           IF i = Len(s) + 1 \/ (i = Len(s) /\ At(s, i) = "\n") THEN <<i>> ELSE <<>>
      [] r.k = "alt" -> ConcatAll([j \in 1..Len(r.rs) |-> Ends(r.rs[j], s, i)])
      [] r.k = "cat" -> EndsCat(r.rs, 1, <<i>>, s)
      [] r.k = "rep" ->
           IF r.r.k \in {"set", "nset"}
           THEN LET len == RunLen(r.r, s, i)
                    most == IF r.hi # -1 /\ r.hi < len THEN r.hi ELSE len
                IN IF most < r.lo THEN <<>>
                   ELSE [j \in 1..(most - r.lo + 1) |-> i + most - j + 1]
           ELSE Ends(r.r, s, i) \o <<i>>

\* The ends of rs[k] rs[k+1] ... from each of the positions ps, in order.
EndsCat(rs, k, ps, s) ==
    IF k > Len(rs) \/ Len(ps) = 0 THEN ps
    ELSE EndsCat(rs, k + 1,
                 ConcatAll([j \in 1..Len(ps) |-> Ends(rs[k], s, ps[j])]), s)

\* pattern.match(s, i - 1): the end of the match starting at i, or NoMatch
FirstEnd(es) == IF Len(es) = 0 THEN NoMatch ELSE es[1]
MatchAt(r, s, i) == FirstEnd(Ends(r, s, i))

\* The smallest index of xs that satisfies a test given as a set of
\* indexes, or 0: the iteration at which a for loop reaches its break.
FirstIn(S) == IF S = {} THEN 0 ELSE CHOOSE i \in S : \A j \in S : i <= j

NoSpan == [start |-> 0, end |-> 0]

\* pattern.search(s, from - 1): the leftmost match, as the positions
\* [start, end) of its span, or NoSpan.
SpanAt(r, s, st) == IF st = 0 THEN NoSpan ELSE [start |-> st, end |-> MatchAt(r, s, st)]
SearchFrom(r, s, from) ==
    SpanAt(r, s, FirstIn({i \in from..(Len(s) + 1) : MatchAt(r, s, i) # NoMatch}))

\* re.search(r, s)
Search(r, s) == SearchFrom(r, s, 1)
Found(m) == m # NoSpan
\* m.group()
Group(s, m) == Sub(s, m.start, m.end - 1)

\* The spans of the successive non-overlapping matches of r in s, as
\* re.findall, re.split and re.finditer scan them (no pattern here matches
\* the empty string).
RECURSIVE SpansFrom(_, _, _)
SpansAfter(r, s, m) == IF ~Found(m) THEN <<>> ELSE <<m>> \o SpansFrom(r, s, m.end)
SpansFrom(r, s, from) == SpansAfter(r, s, SearchFrom(r, s, from))
Spans(r, s) == SpansFrom(r, s, 1)

\* re.split(r, s) for a pattern without groups
Between(s, ms) ==
    [j \in 1..(Len(ms) + 1) |->
        Sub(s, IF j = 1 THEN 1 ELSE ms[j - 1].end,
               IF j = Len(ms) + 1 THEN Len(s) ELSE ms[j].start - 1)]
ReSplit(r, s) == Between(s, Spans(r, s))

\* re.sub(r, "", s) for a pattern anchored at the start of s
DropTo(s, e) == IF e = NoMatch THEN s ELSE Sub(s, e, Len(s))
StripPrefix(r, s) == DropTo(s, MatchAt(r, s, 1))

\* lines[:n]
Take(xs, n) == SubSeq(xs, 1, IF Len(xs) < n THEN Len(xs) ELSE n)


---------------------------------------------------------------------------
(* extract_personal_info                                                   *)

EmptyPersonalInfo ==
    [full_name |-> "", location |-> "", first_name |-> "", last_name |-> "",
     email |-> "", phone |-> "", address |-> "", linkedin |-> "",
     github |-> "", portfolio |-> ""]

NameExcluded == {"resume", "cv", "curriculum", "vitae", "phone", "email", "linkedin"}
NameRe == RCat(<<RBol, RPlus(RSet(Letters \cup Spaces \cup {".", "-"})), REol>>)

IsNameLine(line) ==
    LET line_clean == Strip(line)
    IN /\ Len(line_clean) > 2
       /\ Len(line_clean) < 50
       /\ ~ContainsAny(NameExcluded, Lower(line_clean))
       /\ MatchAt(NameRe, line_clean, 1) # NoMatch

EmailRe ==
    RCat(<<RWordB,
           RPlus(RSet(Letters \cup Digits \cup CharSet("._%+-"))),
           RSet({"@"}),
           RPlus(RSet(Letters \cup Digits \cup CharSet(".-"))),
           RSet({"."}),
           RRep(RSet(Letters \cup {"|"}), 2, -1),
           RWordB>>)

PhoneSep == ROpt(RSet({"-", "."} \cup Spaces))
PhoneCore ==
    <<RRep(RSet(Digits), 3, 3), ROpt(RSet({")"})), PhoneSep,
      RRep(RSet(Digits), 3, 3), PhoneSep, RRep(RSet(Digits), 4, 4)>>
phone_patterns ==
    <<RCat(<<ROpt(RCat(<<ROpt(RSet({"+"})), RRep(RSet(Digits), 1, 3), PhoneSep>>)),
             ROpt(RSet({"("}))>> \o PhoneCore),
      RCat(<<RWordB, RRep(RSet(Digits), 3, 3), PhoneSep, RRep(RSet(Digits), 3, 3),
             PhoneSep, RRep(RSet(Digits), 4, 4), RWordB>>)>>

LinkedinRe == RCat(<<RLit("linkedin.com/in/"), RPlus(RNot(Spaces))>>)
GithubRe == RCat(<<RLit("github.com/"), RPlus(RNot(Spaces))>>)
PortfolioRe ==
    RCat(<<RAlt(<<RCat(<<RLit("http"), ROpt(RSet({"s"})), RLit("://")>>), RLit("www.")>>),
           RPlus(RSet(WordChars \cup CharSet("-.~:/?#@!$&'\"()*+,;=%")))>>)

address_tokens == {"address", "location", "city", "province", "district", "street", "road"}

\* m.group() if m else the value the field had
GroupOr(s, m, default) == IF Found(m) THEN Group(s, m) ELSE default

extract_personal_info(t) ==
    LET lines == SplitChar(t, "\n")
        head10 == Take(lines, 10)
        name_at == FirstIn({i \in 1..Len(head10) : IsNameLine(head10[i])})
        full_name == IF name_at = 0 THEN "" ELSE Strip(head10[name_at])
        name_parts == SplitWhite(full_name)
        phone1 == Search(phone_patterns[1], t)
        phone2 == Search(phone_patterns[2], t)
        pm == Search(PortfolioRe, t)
        candidate == IF Found(pm) THEN Strip(Group(t, pm)) ELSE ""
        head12 == Take(lines, 12)
        loc1 == FirstIn({i \in 1..Len(head12) :
                          /\ ContainsAny(address_tokens, Lower(Strip(head12[i])))
                          /\ Len(Strip(head12[i])) > 5})
        head8 == Take(lines, 8)
        loc2 == FirstIn({i \in 1..Len(head8) :
                          /\ Contains(",", head8[i])
                          /\ Len(Strip(head8[i])) > 8
                          /\ ~Contains("@", head8[i])})
        location == IF loc1 # 0 THEN Strip(head12[loc1])
                    ELSE IF loc2 # 0 THEN Strip(head8[loc2]) ELSE ""
    IN [EmptyPersonalInfo EXCEPT
          !.full_name = full_name,
          !.first_name = IF Len(name_parts) > 0 THEN name_parts[1] ELSE "",
          !.last_name = IF Len(name_parts) > 1 THEN name_parts[Len(name_parts)] ELSE "",
          !.email = GroupOr(t, Search(EmailRe, t), ""),
          !.phone = IF Found(phone1) THEN Group(t, phone1) ELSE GroupOr(t, phone2, ""),
          !.linkedin = GroupOr(t, Search(LinkedinRe, t), ""),
          !.github = GroupOr(t, Search(GithubRe, t), ""),
          !.portfolio = IF /\ Found(pm)
                           /\ ~Contains("@", candidate)
                           /\ ~Contains("linkedin", candidate)
                           /\ ~Contains("github", candidate)
                        THEN candidate ELSE "",
          !.location = location,
          !.address = location]

---------------------------------------------------------------------------
(* extract_summary: the loop over the lines, one SummaryStep per line.     *)

SummaryHeaders == {"summary", "objective", "profile", "about"}
SummarySections == {"experience", "education", "skills", "projects"}

SummaryInit == [summary |-> "", in_summary |-> FALSE, stop |-> FALSE]

SummaryStep(st, line) ==
    LET line_clean == Strip(line)
    IN IF st.stop THEN st
       ELSE IF ContainsAny(SummaryHeaders, Lower(line_clean))
            THEN [st EXCEPT !.in_summary = TRUE]
       ELSE IF st.in_summary
            THEN IF Len(line_clean) > 10
                 THEN IF ContainsAny(SummarySections, Lower(line_clean))
                      THEN [st EXCEPT !.stop = TRUE]
                      ELSE [st EXCEPT !.summary = @ \o line_clean \o " "]
                 ELSE IF st.summary # "" THEN [st EXCEPT !.stop = TRUE] ELSE st
       ELSE st

RECURSIVE SummaryLoop(_, _, _)
SummaryLoop(st, lines, i) ==
    IF i > Len(lines) THEN st ELSE SummaryLoop(SummaryStep(st, lines[i]), lines, i + 1)

extract_summary(t) == Strip(SummaryLoop(SummaryInit, SplitChar(t, "\n"), 1).summary)

---------------------------------------------------------------------------
(* extract_work_experience: the loop over the lines, one WorkStep per      *)
(* line.  The empty dict {} of current_job is the empty function.          *)

EmptyDict == <<>>
IsEmptyDict(d) == DOMAIN d = {}

ExperienceHeaders == {"experience", "work experience", "employment", "work history"}
WorkSections == {"education", "skills", "projects", "certifications"}
\* The look-ahead that also closes the entry before a bullet line.
WorkLookaheadBullet == {"education", "skills", BULLET}
WorkLookahead == {"education", "skills"}

AtRe == RCat(<<RWordB, RLitI("at"), RWordB>>)
SeparatorRe == RSet({"|", "-", BULLET, ",", ENDASH, EMDASH})

D4 == RRep(RSet(Digits), 4, 4)
DashRe == RSet({"-", ENDASH})
Ws0 == RStar(RSet(Spaces))
Word1 == RPlus(RSet(WordChars))
DateRangeRe ==
    RAlt(<<RCat(<<Word1, Ws0, D4, Ws0, DashRe, Ws0, Word1, Ws0, D4>>),
           RCat(<<D4, Ws0, DashRe, Ws0, D4>>),
           RCat(<<D4, Ws0, DashRe, Ws0, RLit("Present")>>),
           RLit("Present"),
           RLit("Current")>>)

CenturyRe == RAlt(<<RLit("19"), RLit("20")>>)
YearRe == RCat(<<CenturyRe, RRep(RSet(Digits), 2, 2)>>)
YearOrNowRe == RAlt(<<YearRe, RLit("Present"), RLit("Current")>>)

\* findall of the pattern without its group: the whole of each match.
FindAllDatesWhole(s) ==
    LET ms == Spans(YearOrNowRe, s)
    IN [j \in 1..Len(ms) |-> Group(s, ms[j])]

\* re.findall(r'(19|20)\d{2}|Present|Current', s): the pattern has one
\* group, so findall returns, for each match, what the group (19|20)
\* matched, and the empty string when the match is Present or Current.
FindAllDates(s) ==
    LET ms == Spans(YearOrNowRe, s)
    IN [j \in 1..Len(ms) |->
          IF MatchAt(YearRe, s, ms[j].start) # NoMatch
          THEN Sub(s, ms[j].start, MatchAt(CenturyRe, s, ms[j].start) - 1)
          ELSE ""]

NewJob(company, title) ==
    [company_name |-> company, job_title |-> title, start_date |-> "",
     end_date |-> "", duration |-> "", responsibilities |-> <<>>]

\* Lines 186-212: the company and the position of the line that opens an
\* entry; {} when the line has neither the word "at" nor a separator.
OpenJob(line_clean) ==
    IF Found(Search(AtRe, line_clean))
    THEN LET parts_at == ReSplit(AtRe, line_clean)
         IN NewJob(Strip(parts_at[2]), Strip(parts_at[1]))
    ELSE LET parts == ReSplit(SeparatorRe, line_clean)
         IN IF Len(parts) >= 2 THEN NewJob(Strip(parts[1]), Strip(parts[2]))
            ELSE EmptyDict

\* dates[k] + "-01" if dates[k] not in ['Present', 'Current'] else other
DateOf(d, other) == IF d \notin {"Present", "Current"} THEN d \o "-01" ELSE other

\* Lines 214-223: the dates of the line that opens an entry.
SetDates(current_job, line_clean) ==
    LET date_match == Search(DateRangeRe, line_clean)
    IN IF ~Found(date_match) \/ IsEmptyDict(current_job) THEN current_job
       ELSE LET date_str == Group(line_clean, date_match)
                dates == FindAllDates(date_str)
            IN [current_job EXCEPT
                  !.start_date = IF Len(dates) >= 1 THEN DateOf(dates[1], "") ELSE @,
                  !.end_date = IF Len(dates) >= 2 THEN DateOf(dates[2], "Present") ELSE @,
                  !.duration = date_str]

BulletPrefixRe == RCat(<<RBol, RSet({BULLET, "-"}), Ws0>>)

\* Lines 226-231: a line of an open entry, kept as a responsibility or not.
AddResponsibility(current_job, line_clean) ==
    LET is_bullet == \/ StartsWith(line_clean, BULLET)
                     \/ StartsWith(line_clean, "-")
                     \/ (Len(line_clean) > 20 /\ ~Found(Search(YearRe, line_clean)))
        responsibility == StripPrefix(BulletPrefixRe, line_clean)
    IN IF is_bullet /\ Len(responsibility) > 10
       THEN [current_job EXCEPT !.responsibilities = Append(@, responsibility)]
       ELSE current_job

WorkInit ==
    [experience |-> <<>>, current_job |-> EmptyDict,
     in_experience_section |-> FALSE, stop |-> FALSE]

\* One iteration of the loop of lines 171-237, for lines[i].
WorkStep(st, lines, i) ==
    LET line_clean == Strip(lines[i])
        low == Lower(line_clean)
    IN IF st.stop \/ line_clean = "" THEN st
       ELSE IF ContainsAny(ExperienceHeaders, low)
            THEN [st EXCEPT !.in_experience_section = TRUE]
       ELSE IF ~st.in_experience_section THEN st
       ELSE IF ContainsAny(WorkSections, low) THEN [st EXCEPT !.stop = TRUE]
       ELSE IF IsEmptyDict(st.current_job) /\ Len(line_clean) > 5
            THEN [st EXCEPT !.current_job = SetDates(OpenJob(line_clean), line_clean)]
       ELSE IF ~IsEmptyDict(st.current_job)
            THEN LET job == AddResponsibility(st.current_job, line_clean)
                 IN IF i < Len(lines) /\ ContainsAny(WorkLookahead, Lower(lines[i + 1]))
                    THEN [st EXCEPT !.experience = Append(@, job),
                                    !.current_job = EmptyDict]
                    ELSE [st EXCEPT !.current_job = job]
       ELSE st

RECURSIVE WorkLoop(_, _, _)
WorkLoop(st, lines, i) ==
    IF i > Len(lines) THEN st ELSE WorkLoop(WorkStep(st, lines, i), lines, i + 1)

\* The flush without its test: whatever current_job is, it is appended.
WorkFlushAlways(st) == Append(st.experience, st.current_job)

\* Lines 239-242: the entry still open after the loop is appended.
WorkFlush(st) ==
    IF IsEmptyDict(st.current_job) THEN st.experience
    ELSE Append(st.experience, st.current_job)

extract_work_experience(t) == WorkFlush(WorkLoop(WorkInit, SplitChar(t, "\n"), 1))

---------------------------------------------------------------------------
(* extract_education: the loop over the lines, one EducationStep per line. *)

EducationHeaders == {"education", "academic", "qualifications"}
EducationSections == {"experience", "skills", "projects", "certifications"}
EducationLookahead == {"experience", "skills", "projects"}
DegreeWords == {"bachelor", "master", "phd", "associate", "diploma", "degree"}
SchoolWords == {"university", "college"}

GpaPrefixRe == RCat(<<RLitI("GPA"), Ws0, ROpt(RSet({":"})), Ws0>>)
GpaValueRe == RCat(<<RSet(Digits), RSet({"."}), RRep(RSet(Digits), 1, 2)>>)
GpaRe == RCat(<<GpaPrefixRe, GpaValueRe>>)

\* gpa_match.group(1): what (\d\.\d{1,2}) matched
GpaGroup(s, m) == Sub(s, MatchAt(GpaPrefixRe, s, m.start), m.end - 1)

\* The entry of a degree line, with the line kept as degree on a school line too.
OpenEducationBoth(line_clean) ==
    LET is_school == ContainsAny(SchoolWords, Lower(line_clean))
        year_match == Search(YearRe, line_clean)
        gpa_match == Search(GpaRe, line_clean)
    IN [degree |-> line_clean,
        major |-> "",
        school_name |-> IF is_school THEN line_clean ELSE "",
        start_date |-> "",
        end_date |-> IF Found(year_match)
                     THEN Group(line_clean, year_match) \o "-01" ELSE "",
        gpa |-> IF Found(gpa_match) THEN GpaGroup(line_clean, gpa_match) ELSE ""]

\* Lines 267-290: the entry a degree line opens.
OpenEducation(line_clean) ==
    LET is_school == ContainsAny(SchoolWords, Lower(line_clean))
        year_match == Search(YearRe, line_clean)
        gpa_match == Search(GpaRe, line_clean)
    IN [degree |-> IF is_school THEN "" ELSE line_clean,
        major |-> "",
        school_name |-> IF is_school THEN line_clean ELSE "",
        start_date |-> "",
        end_date |-> IF Found(year_match)
                     THEN Group(line_clean, year_match) \o "-01" ELSE "",
        gpa |-> IF Found(gpa_match) THEN GpaGroup(line_clean, gpa_match) ELSE ""]

EducationInit ==
    [education |-> <<>>, current_edu |-> EmptyDict,
     in_education_section |-> FALSE, stop |-> FALSE]

\* One iteration of the loop of lines 252-300, for lines[i].
EducationStep(st, lines, i) ==
    LET line_clean == Strip(lines[i])
        low == Lower(line_clean)
    IN IF st.stop \/ line_clean = "" THEN st
       ELSE IF ContainsAny(EducationHeaders, low)
            THEN [st EXCEPT !.in_education_section = TRUE]
       ELSE IF ~st.in_education_section THEN st
       ELSE IF ContainsAny(EducationSections, low) THEN [st EXCEPT !.stop = TRUE]
       ELSE IF IsEmptyDict(st.current_edu) /\ Len(line_clean) > 5
            THEN IF ContainsAny(DegreeWords, low)
                 THEN [st EXCEPT !.current_edu = OpenEducation(line_clean)]
                 ELSE st
       ELSE IF ~IsEmptyDict(st.current_edu)
            THEN LET edu == IF st.current_edu.school_name = ""
                               /\ ContainsAny(SchoolWords, low)
                            THEN [st.current_edu EXCEPT !.school_name = line_clean]
                            ELSE st.current_edu
                 IN IF i < Len(lines)
                       /\ ContainsAny(EducationLookahead, Lower(lines[i + 1]))
                    THEN [st EXCEPT !.education = Append(@, edu),
                                    !.current_edu = EmptyDict]
                    ELSE [st EXCEPT !.current_edu = edu]
       ELSE st

RECURSIVE EducationLoop(_, _, _)
EducationLoop(st, lines, i) ==
    IF i > Len(lines) THEN st
    ELSE EducationLoop(EducationStep(st, lines, i), lines, i + 1)

\* Lines 302-305
EducationFlush(st) ==
    IF IsEmptyDict(st.current_edu) THEN st.education
    ELSE Append(st.education, st.current_edu)

extract_education(t) ==
    EducationFlush(EducationLoop(EducationInit, SplitChar(t, "\n"), 1))

---------------------------------------------------------------------------
(* extract_projects: the loop over the lines, one ProjectStep per line.    *)

ProjectHeaders == {"projects", "personal projects", "portfolio"}
ProjectSections == {"experience", "education", "skills", "certifications"}
ProjectLookahead == {"experience", "education"}
tech_keywords == <<"python", "java", "react", "node", "sql", "mongodb", "aws">>

ProjectInit ==
    [projects |-> <<>>, current_project |-> EmptyDict,
     in_project_section |-> FALSE, stop |-> FALSE]

\* The technologies found, listed from the end of the lexicon.
FoundTechReversed(line_clean) ==
    SelectSeq(<<"aws", "mongodb", "sql", "node", "react", "java", "python">>,
              LAMBDA tech : Contains(tech, Lower(line_clean)))

\* [tech for tech in tech_keywords if tech in line_clean.lower()]
FoundTech(line_clean) ==
    SelectSeq(tech_keywords, LAMBDA tech : Contains(tech, Lower(line_clean)))

\* One iteration of the loop of lines 365-405, for lines[i].
ProjectStep(st, lines, i) ==
    LET line_clean == Strip(lines[i])
        low == Lower(line_clean)
    IN IF st.stop \/ line_clean = "" THEN st
       ELSE IF ContainsAny(ProjectHeaders, low)
            THEN [st EXCEPT !.in_project_section = TRUE]
       ELSE IF ~st.in_project_section THEN st
       ELSE IF ContainsAny(ProjectSections, low) THEN [st EXCEPT !.stop = TRUE]
       ELSE IF IsEmptyDict(st.current_project)
               /\ Len(line_clean) > 5 /\ Len(line_clean) < 100
            THEN [st EXCEPT !.current_project =
                    [title |-> line_clean, description |-> "",
                     technologies |-> <<>>, role |-> "", duration |-> ""]]
       ELSE IF ~IsEmptyDict(st.current_project)
            THEN LET cur == st.current_project
                     proj == IF Len(line_clean) > 20
                             THEN IF cur.description = ""
                                  THEN [cur EXCEPT !.description = line_clean]
                                  ELSE [cur EXCEPT !.technologies =
                                                     @ \o FoundTech(line_clean)]
                             ELSE cur
                 IN IF i < Len(lines)
                       /\ (Len(Strip(lines[i + 1])) = 0
                           \/ ContainsAny(ProjectLookahead, Lower(lines[i + 1])))
                    THEN [st EXCEPT !.projects = Append(@, proj),
                                    !.current_project = EmptyDict]
                    ELSE [st EXCEPT !.current_project = proj]
       ELSE st

RECURSIVE ProjectLoop(_, _, _)
ProjectLoop(st, lines, i) ==
    IF i > Len(lines) THEN st ELSE ProjectLoop(ProjectStep(st, lines, i), lines, i + 1)

\* Lines 407-410
ProjectFlush(st) ==
    IF IsEmptyDict(st.current_project) THEN st.projects
    ELSE Append(st.projects, st.current_project)

extract_projects(t) == ProjectFlush(ProjectLoop(ProjectInit, SplitChar(t, "\n"), 1))

---------------------------------------------------------------------------
(* extract_additional_info: one AdditionalStep per line.                   *)

AdditionalInit ==
    [info |-> [certifications |-> <<>>, languages |-> <<>>, awards |-> <<>>],
     current_section |-> ""]

\* The step with the header line stored in the list it names.
AdditionalStepKeepsHeader(st, line) ==
    LET line_clean == Strip(line)
        low == Lower(line_clean)
        section == IF StartsWith(low, "certificat") THEN "certifications"
                   ELSE IF StartsWith(low, "language") THEN "languages"
                   ELSE IF StartsWith(low, "award") \/ Contains("honor", low)
                        THEN "awards"
                   ELSE st.current_section
    IN IF line_clean = "" THEN st
       ELSE IF section # "" /\ Len(line_clean) > 2
            THEN [st EXCEPT !.info[section] = Append(@, line_clean),
                            !.current_section = section]
       ELSE st

\* One iteration of the loop of lines 423-447, for one line.
AdditionalStep(st, line) ==
    LET line_clean == Strip(line)
        low == Lower(line_clean)
    IN IF line_clean = "" THEN st
       ELSE IF StartsWith(low, "certificat") \/ StartsWith(low, "certification")
            THEN [st EXCEPT !.current_section = "certifications"]
       ELSE IF StartsWith(low, "language") \/ low = "languages"
               \/ StartsWith(low, "languages:")
            THEN [st EXCEPT !.current_section = "languages"]
       ELSE IF StartsWith(low, "award") \/ StartsWith(low, "awards")
               \/ Contains("honor", low)
            THEN [st EXCEPT !.current_section = "awards"]
       ELSE IF st.current_section # "" /\ Len(line_clean) > 2
            THEN [st EXCEPT !.info[st.current_section] = Append(@, line_clean)]
       ELSE st

RECURSIVE AdditionalLoop(_, _, _)
AdditionalLoop(st, lines, i) ==
    IF i > Len(lines) THEN st
    ELSE AdditionalLoop(AdditionalStep(st, lines[i]), lines, i + 1)

extract_additional_info(t) ==
    AdditionalLoop(AdditionalInit, SplitChar(t, "\n"), 1).info

---------------------------------------------------------------------------
(* extract_skills                                                          *)

Categories == <<"programming", "web", "data", "devops", "tools", "soft_skills">>

skill_categories ==
    [programming |-> <<"python", "java", "javascript", "typescript", "c++", "c#",
                       "php", "ruby">>,
     web |-> <<"html", "css", "react", "angular", "vue", "node.js", "express",
               "django", "flask", "spring", "laravel">>,
     data |-> <<"sql", "mysql", "postgresql", "mongodb", "redis", "pandas", "numpy",
                "data analysis", "machine learning">>,
     devops |-> <<"aws", "azure", "gcp", "docker", "kubernetes", "jenkins", "gitlab",
                  "terraform", "linux">>,
     tools |-> <<"git", "github", "gitlab", "jira", "docker", "postman">>,
     soft_skills |-> <<"leadership", "communication", "teamwork", "problem solving",
                       "critical thinking", "project management", "agile", "scrum">>]

\* r'\b' + re.escape(keyword) + r'\b'
KeywordRe(keyword) == RCat(<<RWordB, RLit(keyword), RWordB>>)

\* re.search(r'\b' + re.escape(keyword) + r'\b', text_lower)
KeywordFound(keyword, text_lower) == Found(Search(KeywordRe(keyword), text_lower))

\* Lines 345-349: the list of one category before the duplicates go, in
\* the order of the lexicon.
MatchedSkills(keywords, text_lower) ==
    LET hit == SelectSeq(keywords, LAMBDA keyword : KeywordFound(keyword, text_lower))
    IN [j \in 1..Len(hit) |-> Title(hit[j])]

\* The names extract_skills can put in a list.
SkillNames ==
    ConcatAll([c \in 1..Len(Categories) |->
                 [j \in 1..Len(skill_categories[Categories[c]]) |->
                    Title(skill_categories[Categories[c]][j])]])

\* hash(name) in a process whose string hashing is seeded with seed: str
\* hashes are randomized per process (PYTHONHASHSEED), equal within one.
StrHash(seed, name) ==
    ((CHOOSE j \in 1..Len(SkillNames) : SkillNames[j] = name) * (seed + 1)) % 53

\* list(set(xs)): the distinct elements of xs in the iteration order of a
\* set, which is the order of their hashes.
ListOfSet(xs, seed) ==
    LET S == {xs[j] : j \in 1..Len(xs)}
    IN [k \in 1..Cardinality(S) |->
          CHOOSE x \in S :
             Cardinality({y \in S : StrHash(seed, y) < StrHash(seed, x)}) = k - 1]

\* One list for all the categories: every match lands in each of them.
extract_skills_one_list(t, seed) ==
    LET found == ConcatAll([c \in 1..Len(Categories) |->
                              MatchedSkills(skill_categories[Categories[c]], Lower(t))])
    IN [category \in DOMAIN skill_categories |-> ListOfSet(found, seed)]

extract_skills(t, seed) ==
    LET text_lower == Lower(t)
    IN [category \in DOMAIN skill_categories |->
          ListOfSet(MatchedSkills(skill_categories[category], text_lower), seed)]

---------------------------------------------------------------------------
(* calculate_experience_level and calculate_total_experience               *)

DigitValue(c) == CHOOSE d \in 0..9 : At("0123456789", d + 1) = c

RECURSIVE DigitsValue(_)
DigitsValue(s) ==
    IF Len(s) = 0 THEN 0
    ELSE 10 * DigitsValue(Sub(s, 1, Len(s) - 1)) + DigitValue(At(s, Len(s)))

\* int(s): the value, or ok = FALSE where int raises ValueError.  (Python
\* also accepts underscores between digits; no input here has one.)
IntParse(s) ==
    LET body == Strip(s)
        signed == Len(body) > 0 /\ At(body, 1) \in {"+", "-"}
        digits == IF signed THEN Sub(body, 2, Len(body)) ELSE body
    IN IF Len(digits) > 0 /\ \A j \in 1..Len(digits) : At(digits, j) \in Digits
       THEN [ok |-> TRUE,
             val |-> IF signed /\ At(body, 1) = "-" THEN 0 - DigitsValue(digits)
                     ELSE DigitsValue(digits)]
       ELSE [ok |-> FALSE, val |-> 0]

\* job.get(key): None (falsy, as the empty string) when the key is missing
Get(job, key) == IF key \in DOMAIN job THEN job[key] ELSE ""

\* s[:4]
First4(s) == Sub(s, 1, IF Len(s) < 4 THEN Len(s) ELSE 4)

\* The iteration that counts the whole years of the months between the
\* two dates rather than the difference of the two years.
LevelStepMonths(total_years, job, today) ==
    IF Get(job, "start_date") # "" /\ Get(job, "end_date") # ""
    THEN LET start_year == IntParse(First4(job.start_date))
             start_month == IntParse(Sub(job.start_date, 6, Len(job.start_date)))
             end_year == IF job.end_date # "Present"
                         THEN IntParse(First4(job.end_date))
                         ELSE [ok |-> TRUE, val |-> today.year]
             end_month == IF job.end_date # "Present"
                          THEN IntParse(Sub(job.end_date, 6, Len(job.end_date)))
                          ELSE [ok |-> TRUE, val |-> today.month]
         IN IF start_year.ok /\ end_year.ok /\ start_month.ok /\ end_month.ok
            THEN total_years + ((end_year.val - start_year.val) * 12
                                + (end_month.val - start_month.val)) \div 12
            ELSE total_years
    ELSE total_years

\* Lines 456-462: one iteration of the loop of calculate_experience_level.
LevelStep(total_years, job, today) ==
    IF Get(job, "start_date") # "" /\ Get(job, "end_date") # ""
    THEN LET start_year == IntParse(First4(job.start_date))
             end_year == IF job.end_date # "Present"
                         THEN IntParse(First4(job.end_date))
                         ELSE [ok |-> TRUE, val |-> today.year]
         IN IF start_year.ok /\ end_year.ok
            THEN total_years + (end_year.val - start_year.val)
            ELSE total_years
    ELSE total_years

RECURSIVE LevelLoop(_, _, _, _)
LevelLoop(total_years, jobs, i, today) ==
    IF i > Len(jobs) THEN total_years
    ELSE LevelLoop(LevelStep(total_years, jobs[i], today), jobs, i + 1, today)

\* The fallback taken for every total that is not positive.
LevelOfNotPositive(summed, t) ==
    LET total_years == IF summed <= 0
                       THEN IF Len(t) > 3000 THEN 3
                            ELSE IF Len(t) > 1500 THEN 1 ELSE 0
                       ELSE summed
    IN IF total_years >= 5 THEN "Experienced"
       ELSE IF total_years >= 2 THEN "Intermediate"
       ELSE "Fresher"

\* Lines 464-477
LevelOf(summed, t) ==
    LET total_years == IF summed = 0
                       THEN IF Len(t) > 3000 THEN 3
                            ELSE IF Len(t) > 1500 THEN 1 ELSE 0
                       ELSE summed
    IN IF total_years >= 5 THEN "Experienced"
       ELSE IF total_years >= 2 THEN "Intermediate"
       ELSE "Fresher"

calculate_experience_level(jobs, t, today) == LevelOf(LevelLoop(0, jobs, 1, today), t)

Pad2(n) == IF n < 10 THEN "0" \o ToString(n) ELSE ToString(n)

\* datetime.now().strftime("%Y-%m")
YearMonth(today) == ToString(today.year) \o "-" \o Pad2(today.month)

\* start_year, start_month = map(int, s.split('-')): ok = FALSE where the
\* unpacking or an int() raises.
ParseYearMonth(s) ==
    LET parts == SplitChar(s, "-")
    IN IF Len(parts) = 2 /\ IntParse(parts[1]).ok /\ IntParse(parts[2]).ok
       THEN [ok |-> TRUE, year |-> IntParse(parts[1]).val,
             month |-> IntParse(parts[2]).val]
       ELSE [ok |-> FALSE, year |-> 0, month |-> 0]

\* Lines 484-497: one iteration of the loop of calculate_total_experience.
TotalStep(total_months, job, today) ==
    IF Get(job, "start_date") # "" /\ Get(job, "end_date") # ""
    THEN LET start == ParseYearMonth(job.start_date)
             end == ParseYearMonth(IF job.end_date = "Present"
                                   THEN YearMonth(today) ELSE job.end_date)
         IN IF start.ok /\ end.ok
            THEN total_months + (end.year - start.year) * 12 + (end.month - start.month)
            ELSE total_months
    ELSE total_months

\* The loop with the try around it rather than in it: the first entry
\* that does not parse ends the loop.
RECURSIVE TotalLoopAbort(_, _, _, _)
TotalLoopAbort(total_months, jobs, i, today) ==
    IF i > Len(jobs) THEN total_months
    ELSE IF /\ Get(jobs[i], "start_date") # "" /\ Get(jobs[i], "end_date") # ""
            /\ \/ ~ParseYearMonth(jobs[i].start_date).ok
               \/ (jobs[i].end_date # "Present" /\ ~ParseYearMonth(jobs[i].end_date).ok)
         THEN total_months
         ELSE TotalLoopAbort(TotalStep(total_months, jobs[i], today), jobs, i + 1, today)

RECURSIVE TotalLoop(_, _, _, _)
TotalLoop(total_months, jobs, i, today) ==
    IF i > Len(jobs) THEN total_months
    ELSE TotalLoop(TotalStep(total_months, jobs[i], today), jobs, i + 1, today)

\* The format with the singular put right: "1 year", "1 month".
FormatExperienceSingular(total_months) ==
    LET years == total_months \div 12
        months == total_months % 12
        y == ToString(years) \o (IF years = 1 THEN " year" ELSE " years")
        m == ToString(months) \o (IF months = 1 THEN " month" ELSE " months")
    IN IF years = 0 THEN m ELSE IF months = 0 THEN y ELSE y \o " " \o m

\* Lines 499-507
FormatExperience(total_months) ==
    LET years == total_months \div 12
        months == total_months % 12
    IN IF years = 0 THEN ToString(months) \o " months"
       ELSE IF months = 0 THEN ToString(years) \o " years"
       ELSE ToString(years) \o " years " \o ToString(months) \o " months"

calculate_total_experience(jobs, today) == FormatExperience(TotalLoop(0, jobs, 1, today))

---------------------------------------------------------------------------
(* The engine: the extractor and calculator calls of analyze_resume        *)
(* (lines 542-568), one action per call, and the profile they build.  The  *)
(* extractors and the calculators are functions of their arguments alone   *)
(* and are applied here to any text, short ones included.                  *)

NotRun == <<>>

\* The request record when the engine runs without one.
NoRequest ==
    [active |-> FALSE, filename |-> "", temp_file |-> "none", temp_path |-> FALSE,
     pdf_error |-> FALSE, raised |-> "none", status_code |-> 0, result |-> "none"]

\* datetime.now().strftime('%Y-%m-%d')
YearMonthDay(today) == YearMonth(today) \o "-" \o Pad2(today.day)

\* Lines 555-568
Assembled ==
    [personal_info |-> personal_info,
     summary |-> summary,
     work_experience |-> work_experience,
     education |-> education,
     skills |-> skills,
     projects |-> projects,
     certifications |-> additional_info.certifications,
     languages |-> additional_info.languages,
     awards |-> additional_info.awards,
     total_experience |-> total_experience,
     experience_level |-> experience_level,
     additional_info |-> "Analyzed on " \o YearMonthDay(now) \o ". Text length: "
                         \o ToString(Len(text)) \o " characters."]

ExtractPersonalInfo ==
    /\ pc = "personal_info"
    /\ personal_info' = extract_personal_info(text)
    /\ pc' = "summary"
    /\ UNCHANGED <<text, now, hash_seed, run, summary, work_experience, education,
                   skills, projects, additional_info, experience_level,
                   total_experience, structured_data, first_data, request>>

ExtractSummary ==
    /\ pc = "summary"
    /\ summary' = extract_summary(text)
    /\ pc' = "work_experience"
    /\ UNCHANGED <<text, now, hash_seed, run, personal_info, work_experience,
                   education, skills, projects, additional_info, experience_level,
                   total_experience, structured_data, first_data, request>>

ExtractWorkExperience ==
    /\ pc = "work_experience"
    /\ work_experience' = extract_work_experience(text)
    /\ pc' = "education"
    /\ UNCHANGED <<text, now, hash_seed, run, personal_info, summary, education,
                   skills, projects, additional_info, experience_level,
                   total_experience, structured_data, first_data, request>>

ExtractEducation ==
    /\ pc = "education"
    /\ education' = extract_education(text)
    /\ pc' = "skills"
    /\ UNCHANGED <<text, now, hash_seed, run, personal_info, summary,
                   work_experience, skills, projects, additional_info,
                   experience_level, total_experience, structured_data, first_data, request>>

ExtractSkills ==
    /\ pc = "skills"
    /\ skills' = extract_skills(text, hash_seed)
    /\ pc' = "projects"
    /\ UNCHANGED <<text, now, hash_seed, run, personal_info, summary,
                   work_experience, education, projects, additional_info,
                   experience_level, total_experience, structured_data, first_data, request>>

ExtractProjects ==
    /\ pc = "projects"
    /\ projects' = extract_projects(text)
    /\ pc' = "additional_info"
    /\ UNCHANGED <<text, now, hash_seed, run, personal_info, summary,
                   work_experience, education, skills, additional_info,
                   experience_level, total_experience, structured_data, first_data, request>>

ExtractAdditionalInfo ==
    /\ pc = "additional_info"
    /\ additional_info' = extract_additional_info(text)
    /\ pc' = "experience_level"
    /\ UNCHANGED <<text, now, hash_seed, run, personal_info, summary,
                   work_experience, education, skills, projects, experience_level,
                   total_experience, structured_data, first_data, request>>

\* The clock: time passes before the calculators read it.
Clock == <<[year |-> 2026, month |-> 11, day |-> 3],
           [year |-> 2027, month |-> 2, day |-> 14]>>

Tick ==
    /\ pc = "experience_level"
    /\ \E j \in 1..(Len(Clock) - 1) : now = Clock[j] /\ now' = Clock[j + 1]
    /\ UNCHANGED <<text, hash_seed, run, pc, personal_info, summary,
                   work_experience, education, skills, projects, additional_info,
                   experience_level, total_experience, structured_data, first_data, request>>

CalculateExperienceLevel ==
    /\ pc = "experience_level"
    /\ experience_level' = calculate_experience_level(work_experience, text, now)
    /\ pc' = "total_experience"
    /\ UNCHANGED <<text, now, hash_seed, run, personal_info, summary,
                   work_experience, education, skills, projects, additional_info,
                   total_experience, structured_data, first_data, request>>

CalculateTotalExperience ==
    /\ pc = "total_experience"
    /\ total_experience' = calculate_total_experience(work_experience, now)
    /\ pc' = "assemble"
    /\ UNCHANGED <<text, now, hash_seed, run, personal_info, summary,
                   work_experience, education, skills, projects, additional_info,
                   experience_level, structured_data, first_data, request>>

Assemble ==
    /\ pc = "assemble"
    /\ structured_data' = Assembled
    /\ pc' = "done"
    /\ UNCHANGED <<text, now, hash_seed, run, personal_info, summary,
                   work_experience, education, skills, projects, additional_info,
                   experience_level, total_experience, first_data, request>>

\* The same text analysed a second time, by the same process or by a new
\* one (whose string hashing has a seed of its own).
Restart ==
    /\ first_data' = structured_data
    /\ run' = 2
    /\ pc' = "personal_info"
    /\ personal_info' = NotRun /\ summary' = NotRun /\ work_experience' = NotRun
    /\ education' = NotRun /\ skills' = NotRun /\ projects' = NotRun
    /\ additional_info' = NotRun /\ experience_level' = NotRun
    /\ total_experience' = NotRun /\ structured_data' = NotRun
    /\ UNCHANGED <<text, now, request>>

NumSeeds == 2
Seeds == 0..(NumSeeds - 1)

AnalyzeAgainSameProcess ==
    /\ pc = "done" /\ run = 1
    /\ hash_seed' = hash_seed
    /\ Restart

AnalyzeAgainNewProcess ==
    /\ pc = "done" /\ run = 1
    /\ hash_seed' \in Seeds
    /\ Restart

---------------------------------------------------------------------------
(* The inputs.                                                             *)

\* The sequences of at most n elements of S.
RECURSIVE SeqsUpTo(_, _)
SeqsUpTo(S, n) ==
    IF n = 0 THEN {<<>>}
    ELSE LET shorter == SeqsUpTo(S, n - 1)
         IN shorter \cup {Append(q, x) : q \in shorter, x \in S}

\* sep.join(parts)
RECURSIVE Join(_, _)
Join(parts, sep) ==
    IF Len(parts) = 0 THEN ""
    ELSE IF Len(parts) = 1 THEN parts[1]
    ELSE parts[1] \o sep \o Join(Tail(parts), sep)

\* s * n
RECURSIVE Repeat(_, _)
Repeat(s, n) ==
    IF n = 0 THEN ""
    ELSE LET h == Repeat(s, n \div 2)
         IN h \o h \o (IF n % 2 = 1 THEN s ELSE "")

\* Resumes: at most MaxBlocks of these blocks of lines, one after another.
MaxBlocks == 2
ResumeBlocks ==
    {"Jane Doe\njane.doe@example.com",
     "Experience\nSoftware Engineer at Acme Corp 2019 - 2021",
     "Experience\nDev at Initech 2020 - Present",
     "> Built REST APIs in Python",
     "Education\nBachelor of Science 2018\nProjects\nResume Parser",
     "Skills: SQL",
     ""}
ResumeTexts == {Join(q, "\n") : q \in SeqsUpTo(ResumeBlocks, MaxBlocks)}

\* Skill sections: at most MaxSkillLines of these blocks of lines.
MaxSkillLines == 2
SkillLines ==
    {"Skills: C++, Python",
     "Docker, docker-compose and GitLab",
     "Experience\nDev at Initech 2020 - Present\nNode.js, SQL and Machine Learning"}
SkillTexts == {Join(q, "\n") : q \in SeqsUpTo(SkillLines, MaxSkillLines)}

\* Work histories for the calculators: at most MaxJobs entries.
MaxJobs == 2
\* <<start_date, end_date>>: whole and broken years, inverted dates, an
\* open end, missing dates, and the dates extract_work_experience writes.
JobDates ==
    {<<"2015-01", "2015-07">>, <<"2015-01", "2016-04">>, <<"2015-01", "2017-01">>,
     <<"2015-01", "2019-12">>, <<"2015-01", "2020-01">>, <<"2015-06", "2020-05">>,
     <<"2015-06", "2019-12">>, <<"2021-03", "2020-01">>, <<"2015-01", "Present">>,
     <<"", "2020-01">>, <<"2015-01", "">>, <<"", "">>,
     <<"2015-01", "-01">>, <<"20-01", "20-01">>, <<"2015", "2020-01">>,
     <<"2015-01", "Current">>}
JobPool == {[NewJob("Acme", "Dev") EXCEPT !.start_date = d[1], !.end_date = d[2]] :
              d \in JobDates}
JobLists == SeqsUpTo(JobPool, MaxJobs)
TextLengths == {0, 1500, 1501, 3000, 3001}

\* The texts of at most n of the given lines.
LinesUpTo(lines, n) == {Join(q, "\n") : q \in SeqsUpTo(lines, n)}

\* Summary sections: at most MaxSummaryLines of these lines.
MaxSummaryLines == 3
SummaryLines ==
    {"Summary", "Skills", "Education and Skills", "Backend engineer, ten years",
     "Short", ""}
SummaryTexts == LinesUpTo(SummaryLines, MaxSummaryLines)

\* Experience sections: at most MaxWorkLines of these lines.
MaxWorkLines == 4
WorkLines ==
    {"Experience", "Senior Developer", "Dev at Initech 2020 - Present",
     "> Built REST APIs in Python", "Skills and Experience", "Education"}
WorkTexts == LinesUpTo(WorkLines, MaxWorkLines)

\* Project sections: at most MaxProjectLines of these lines.
MaxProjectLines == 5
ProjectLines ==
    {"Projects", "Resume Parser", "", "Backend in Python with AWS and SQL",
     "Education"}
ProjectTexts == LinesUpTo(ProjectLines, MaxProjectLines)

\* Education sections: at most MaxEducationLines of these lines.
MaxEducationLines == 4
EducationLines ==
    {"Education", "Bachelor of Science 2018 GPA: 3.8",
     "Master degree, State University 2020", "State College of Arts", "Skills"}
EducationTexts == LinesUpTo(EducationLines, MaxEducationLines)

\* Additional sections: at most MaxAdditionalLines of these lines.
MaxAdditionalLines == 4
AdditionalLines ==
    {"Certifications", "Languages:", "With honors", "AWS Certified Developer",
     "ab", "  Spanish  "}
AdditionalTexts == LinesUpTo(AdditionalLines, MaxAdditionalLines)

\* Resume heads: at most MaxNameLines of these blocks of lines; names of 2, 8,
\* 7 and 50 characters, and ten lines that are no names.
MaxNameLines == 3
NameLines ==
    {"Al", "Jane Doe", "Madonna", Join(<<"Jane ", Repeat("x", 45)>>, ""),
     "Resume of Jane", "0\n0\n0\n0\n0\n0\n0\n0\n0\n0"}
NameTexts == LinesUpTo(NameLines, MaxNameLines)

\* Resumes around the text lengths the level depends on: at most
\* MaxLevelLines of these lines, alone or after a blank first line that
\* brings the text to a length of TextLengths.
MaxLevelLines == 2
LevelLines ==
    {"Experience", "Dev at Initech 2020 - Present",
     "Engineer at Acme Corp 2010 - 2021", "Intern at Acme 1999 - 2021",
     "Lead at Hooli PresentCurrent2020 - x 2021"}
PadTo(body, length) ==
    IF length <= Len(body) THEN body
    ELSE Join(<<Repeat(" ", length - Len(body) - 1), body>>, "\n")
LevelTexts ==
    {PadTo(body, n) : body \in LinesUpTo(LevelLines, MaxLevelLines), n \in TextLengths}

\* Work histories of several job lines: at most MaxHistoryLines of these
\* blocks of lines.
MaxHistoryLines == 4
HistoryLines ==
    {"Experience\nDev at Initech", "Dev at Initech", "> Built REST APIs in Python",
     "Skills and Experience", "Skills"}
HistoryTexts == LinesUpTo(HistoryLines, MaxHistoryLines)

---------------------------------------------------------------------------
(* analyze_resume, the request handler around the engine.  pc names the    *)
(* statement it runs next; request holds the upload, the temporary file,   *)
(* the exception in flight and the response.                               *)

Filenames == {"cv.pdf", "CV.PDF", "cv.docx"}

\* What pdfminer can extract from an upload, around the 50 character limit.
RequestTexts ==
    { "",
      "   \n   ",
      "Jane Doe\njane.doe@example.com",
      Repeat("x", 49),
      Join(<<Repeat(" ", 6), Repeat("x", 49), Repeat("\n", 5)>>, ""),
      Repeat("x", 50),
      Join(<<" ", Repeat("x", 50), "\n">>, ""),
      "Jane Doe\njane.doe@example.com\nExperience\nDev at Initech 2020 - Present",
      "Experience\nDev at Initech 2020 - Present\nNode.js, SQL and Machine Learning" }

NewRequest(name) ==
    [active |-> TRUE, filename |-> name, temp_file |-> "none", temp_path |-> FALSE,
     pdf_error |-> FALSE, raised |-> "none", status_code |-> 0, result |-> "none"]

\* raise HTTPException(status_code=code)
RaiseHTTP(code) ==
    /\ request' = [request EXCEPT !.raised = "HTTPException", !.status_code = code]
    /\ pc' = "except"

EngineVars ==
    <<now, hash_seed, run, personal_info, summary, work_experience, education,
      skills, projects, additional_info, experience_level, total_experience,
      structured_data, first_data>>

CheckFilename ==
    /\ pc = "check_filename"
    /\ IF ~EndsWith(Lower(request.filename), ".pdf")
       THEN RaiseHTTP(400)
       ELSE pc' = "write_temp" /\ UNCHANGED request
    /\ UNCHANGED <<text, EngineVars>>

\* The temporary file exists once NamedTemporaryFile is entered; temp_path is
\* assigned only after the upload was read and written.
WriteTemp ==
    /\ pc = "write_temp"
    /\ \E outcome \in {"ok", "read_error", "write_error"} :
          IF outcome = "ok"
          THEN /\ request' = [request EXCEPT !.temp_file = "exists",
                                             !.temp_path = TRUE]
               /\ pc' = "extract_text"
          ELSE /\ request' = [request EXCEPT !.temp_file = "exists",
                                             !.raised = "Exception"]
               /\ pc' = "except"
    /\ UNCHANGED <<text, EngineVars>>

\* extract_text_from_pdf: the text pdfminer extracts, "" when it raises.
ExtractTextFromPdf ==
    /\ pc = "extract_text"
    /\ \E extracted \in RequestTexts, error \in BOOLEAN :
          /\ text' = IF error THEN "" ELSE extracted
          /\ request' = [request EXCEPT !.pdf_error = error]
    /\ pc' = "validate"
    /\ UNCHANGED EngineVars

Insufficient(resume_text) == resume_text = "" \/ Len(Strip(resume_text)) < 50

ValidateText ==
    /\ pc = "validate"
    /\ IF Insufficient(text)
       THEN RaiseHTTP(400)
       ELSE pc' = "pyresparser" /\ UNCHANGED request
    /\ UNCHANGED <<text, EngineVars>>

\* parse_resume_with_pyresparser never raises and its result is not used.
ParseResumeWithPyresparser ==
    /\ pc = "pyresparser"
    /\ pc' = "personal_info"
    /\ UNCHANGED <<text, request, EngineVars>>

Return ==
    /\ pc = "done"
    /\ request.active
    /\ request' = [request EXCEPT !.result = "profile", !.status_code = 200]
    /\ pc' = "finally"
    /\ UNCHANGED <<text, EngineVars>>

\* A handler that has only the except Exception clause.
ExceptRewrapsAll ==
    /\ pc = "except"
    /\ request.raised = "HTTPException"
    /\ request' = [request EXCEPT !.status_code = 500]
    /\ pc' = "finally"
    /\ UNCHANGED <<text, EngineVars>>

\* except HTTPException: raise
ExceptHTTPException ==
    /\ pc = "except"
    /\ request.raised = "HTTPException"
    /\ pc' = "finally"
    /\ UNCHANGED <<text, request, EngineVars>>

\* except Exception: raise HTTPException(status_code=500)
ExceptException ==
    /\ pc = "except"
    /\ request.raised = "Exception"
    /\ request' = [request EXCEPT !.raised = "HTTPException", !.status_code = 500]
    /\ pc' = "finally"
    /\ UNCHANGED <<text, EngineVars>>

\* finally: unlink the file temp_path names; a failing os.unlink is swallowed.
Finally ==
    /\ pc = "finally"
    /\ IF request.temp_path /\ request.temp_file = "exists"
       THEN \E unlinked \in BOOLEAN :
               request' = [request EXCEPT
                              !.temp_file = IF unlinked THEN "deleted" ELSE "exists"]
       ELSE UNCHANGED request
    /\ pc' = "responded"
    /\ UNCHANGED <<text, EngineVars>>

---------------------------------------------------------------------------
(* Specifications.                                                         *)

InitEngine(texts) ==
    /\ text \in texts
    /\ now = Clock[1]
    /\ hash_seed \in Seeds
    /\ run = 1
    /\ pc = "personal_info"
    /\ personal_info = NotRun /\ summary = NotRun /\ work_experience = NotRun
    /\ education = NotRun /\ skills = NotRun /\ projects = NotRun
    /\ additional_info = NotRun /\ experience_level = NotRun
    /\ total_experience = NotRun /\ structured_data = NotRun
    /\ first_data = NotRun
    /\ request = NoRequest

Init == InitEngine(ResumeTexts)

Next ==
    \/ ExtractPersonalInfo
    \/ ExtractSummary
    \/ ExtractWorkExperience
    \/ ExtractEducation
    \/ ExtractSkills
    \/ ExtractProjects
    \/ ExtractAdditionalInfo
    \/ Tick
    \/ CalculateExperienceLevel
    \/ CalculateTotalExperience
    \/ Assemble

\* The engine on resumes.
Spec == Init /\ [][Next]_vars

InitSkills == InitEngine(SkillTexts)

NextTwice ==
    \/ Next
    \/ AnalyzeAgainSameProcess
    \/ AnalyzeAgainNewProcess

\* The engine run twice on skill sections.
SpecSkills == InitSkills /\ [][NextTwice]_vars

\* The calculators on work histories given directly.
InitCalc ==
    /\ text \in {Repeat("x", n) : n \in TextLengths}
    /\ work_experience \in JobLists
    /\ now = Clock[1]
    /\ hash_seed = 0
    /\ run = 1
    /\ pc = "experience_level"
    /\ personal_info = NotRun /\ summary = NotRun
    /\ education = NotRun /\ skills = NotRun /\ projects = NotRun
    /\ additional_info = NotRun /\ experience_level = NotRun
    /\ total_experience = NotRun /\ structured_data = NotRun
    /\ first_data = NotRun
    /\ request = NoRequest

NextCalc ==
    \/ Tick
    \/ CalculateExperienceLevel
    \/ CalculateTotalExperience

SpecCalc == InitCalc /\ [][NextCalc]_vars

\* A request to analyze_resume, from the filename check to the response.
InitRequest ==
    /\ request \in {NewRequest(name) : name \in Filenames}
    /\ text = ""
    /\ now = Clock[1]
    /\ hash_seed \in Seeds
    /\ run = 1
    /\ pc = "check_filename"
    /\ personal_info = NotRun /\ summary = NotRun /\ work_experience = NotRun
    /\ education = NotRun /\ skills = NotRun /\ projects = NotRun
    /\ additional_info = NotRun /\ experience_level = NotRun
    /\ total_experience = NotRun /\ structured_data = NotRun
    /\ first_data = NotRun

NextRequest ==
    \/ CheckFilename
    \/ WriteTemp
    \/ ExtractTextFromPdf
    \/ ValidateText
    \/ ParseResumeWithPyresparser
    \/ Next
    \/ Return
    \/ ExceptHTTPException
    \/ ExceptException
    \/ Finally

SpecRequest == InitRequest /\ [][NextRequest]_vars

\* The engine in one process.
InitOneProcess(texts) == InitEngine(texts) /\ hash_seed = 0

\* The engine on summary sections.
SpecSummary == InitOneProcess(SummaryTexts) /\ [][Next]_vars

\* The engine on experience sections.
SpecWork == InitOneProcess(WorkTexts) /\ [][Next]_vars

\* One call of analyze_resume on its own: the engine about to make the call
\* named by stage; the results of the other calls, which the call does not
\* read, are left out.
InitCall(stage, texts) ==
    /\ text \in texts
    /\ now = Clock[1]
    /\ hash_seed = 0
    /\ run = 1
    /\ pc = stage
    /\ personal_info = NotRun /\ summary = NotRun /\ work_experience = NotRun
    /\ education = NotRun /\ skills = NotRun /\ projects = NotRun
    /\ additional_info = NotRun /\ experience_level = NotRun
    /\ total_experience = NotRun /\ structured_data = NotRun
    /\ first_data = NotRun
    /\ request = NoRequest

\* extract_projects on project sections.
SpecProjects == InitCall("projects", ProjectTexts) /\ [][ExtractProjects]_vars

\* extract_education on education sections.
SpecEducation == InitCall("education", EducationTexts) /\ [][ExtractEducation]_vars

\* extract_additional_info on certification, language and award sections.
SpecAdditional ==
    InitCall("additional_info", AdditionalTexts) /\ [][ExtractAdditionalInfo]_vars

\* extract_personal_info on resume heads.
SpecNames == InitCall("personal_info", NameTexts) /\ [][ExtractPersonalInfo]_vars

\* The calculators on the work history that extract_work_experience returns
\* for the text, as analyze_resume calls them.
InitLevel ==
    /\ text \in LevelTexts
    /\ work_experience = extract_work_experience(text)
    /\ now = Clock[1]
    /\ hash_seed = 0
    /\ run = 1
    /\ pc = "experience_level"
    /\ personal_info = NotRun /\ summary = NotRun
    /\ education = NotRun /\ skills = NotRun /\ projects = NotRun
    /\ additional_info = NotRun /\ experience_level = NotRun
    /\ total_experience = NotRun /\ structured_data = NotRun
    /\ first_data = NotRun
    /\ request = NoRequest

SpecLevel == InitLevel /\ [][NextCalc]_vars

\* extract_work_experience on work histories of several job lines.
SpecHistory ==
    InitCall("work_experience", HistoryTexts) /\ [][ExtractWorkExperience]_vars

---------------------------------------------------------------------------
(* Properties.  pc names the call analyze_resume makes next, so a result   *)
(* is in its variable once pc is past the call that computes it.           *)

Stages ==
    <<"personal_info", "summary", "work_experience", "education", "skills",
      "projects", "additional_info", "experience_level", "total_experience",
      "assemble", "done">>
StageOf(p) == CHOOSE j \in 1..Len(Stages) : Stages[j] = p
Past(stage) == StageOf(pc) > StageOf(stage)

PersonalKeys ==
    {"full_name", "location", "first_name", "last_name", "email", "phone",
     "address", "linkedin", "github", "portfolio"}
SkillKeys == {"programming", "web", "data", "devops", "tools", "soft_skills"}
AdditionalKeys == {"certifications", "languages", "awards"}
WorkKeys ==
    {"company_name", "job_title", "start_date", "end_date", "duration",
     "responsibilities"}
EducationKeys == {"degree", "major", "school_name", "start_date", "end_date", "gpa"}
ProjectKeys == {"title", "description", "technologies", "role", "duration"}

EachHas(entries, keys) == \A j \in 1..Len(entries) : DOMAIN entries[j] = keys

\* C1: for every text, the empty one included, every extractor returns a
\* complete value: the ten keys of the personal info, the six categories
\* of the skills, the three lists of the additional info, and in every
\* work, education and project entry all the keys of its type.
C1_CompleteRecords ==
    /\ Past("personal_info") => DOMAIN personal_info = PersonalKeys
    /\ Past("work_experience") => EachHas(work_experience, WorkKeys)
    /\ Past("education") => EachHas(education, EducationKeys)
    /\ Past("skills") => DOMAIN skills = SkillKeys
    /\ Past("projects") => EachHas(projects, ProjectKeys)
    /\ Past("additional_info") => DOMAIN additional_info = AdditionalKeys

\* A resume with a work, an education and a project entry, analysed.
C1_EntriesOfEachType ==
    /\ pc = "done"
    /\ Len(work_experience) > 0 /\ Len(education) > 0 /\ Len(projects) > 0

AllDigits(s) == \A j \in 1..Len(s) : At(s, j) \in Digits

\* "<title> at <company> <Y1> - <Y2>"
DatedLine(title, company, y1, y2) ==
    title \o " at " \o company \o " " \o y1 \o " - " \o y2

\* C2: the entry opened on the line "<title> at <company> <Y1> - <Y2>" has
\* the title before "at", the company after it with the date text still in
\* it, start_date "<Y1>-01", end_date "<Y2>-01" and the matched text
\* "<Y1> - <Y2>" as duration; "Software Engineer at Acme Corp 2019 - 2021"
\* gives "2019-01", "2021-01" and "2019 - 2021".
C2_DatedLineEntry ==
    \A title \in {"Software Engineer"}, company \in {"Acme Corp"},
       y1 \in {"2019"}, y2 \in {"2021"} :
       (/\ Past("work_experience")
        /\ StartsWith(text, "Experience\n" \o DatedLine(title, company, y1, y2)))
       => /\ Len(work_experience) >= 1
          /\ work_experience[1].job_title = title
          /\ work_experience[1].company_name = company \o " " \o y1 \o " - " \o y2
          /\ work_experience[1].start_date = y1 \o "-01"
          /\ work_experience[1].end_date = y2 \o "-01"
          /\ work_experience[1].duration = y1 \o " - " \o y2

\* YYYY-MM: four digits, a dash, two digits.
IsYearMonth(s) ==
    Len(s) = 7 /\ AllDigits(Sub(s, 1, 4)) /\ At(s, 5) = "-" /\ AllDigits(Sub(s, 6, 7))

\* C3: in every entry of extract_work_experience, start_date is empty or
\* YYYY-MM, and end_date is empty, "Present" or YYYY-MM; a date range that
\* ends in "Present" or "Current" gives end_date "Present".
C3_DateForms ==
    Past("work_experience") =>
       \A j \in 1..Len(work_experience) :
          LET job == work_experience[j]
          IN /\ job.start_date = "" \/ IsYearMonth(job.start_date)
             /\ job.end_date \in {"", "Present"} \/ IsYearMonth(job.end_date)
             /\ (EndsWith(job.duration, "Present") \/ EndsWith(job.duration, "Current"))
                => job.end_date = "Present"

\* The year and the month a date YYYY-MM writes, "Present" being today.
YearOf(d) == IF d = "Present" THEN now.year ELSE DigitsValue(Sub(d, 1, 4))
MonthOf(d) == IF d = "Present" THEN now.month ELSE DigitsValue(Sub(d, 6, 7))

\* Both dates of the entry are there and well formed.
Dated(job) ==
    /\ IsYearMonth(job.start_date)
    /\ job.end_date = "Present" \/ IsYearMonth(job.end_date)

MonthsOf(job) ==
    (YearOf(job.end_date) - YearOf(job.start_date)) * 12
    + (MonthOf(job.end_date) - MonthOf(job.start_date))
YearsOf(job) == YearOf(job.end_date) - YearOf(job.start_date)

\* The sum of Of(job) over the dated entries of jobs[1..n].
RECURSIVE SumDated(_, _, _)
SumDated(Of(_), jobs, n) ==
    IF n = 0 THEN 0
    ELSE SumDated(Of, jobs, n - 1) + (IF Dated(jobs[n]) THEN Of(jobs[n]) ELSE 0)

MonthsTotal == SumDated(MonthsOf, work_experience, Len(work_experience))
YearsTotal == SumDated(YearsOf, work_experience, Len(work_experience))

\* Every date of the work history is empty, "Present" or YYYY-MM.
PlainDates ==
    \A j \in 1..Len(work_experience) :
       /\ work_experience[j].start_date = "" \/ IsYearMonth(work_experience[j].start_date)
       /\ work_experience[j].end_date \in {"", "Present"}
          \/ IsYearMonth(work_experience[j].end_date)

\* Every entry of the work history has both dates, as YYYY-MM.
WellFormedDates ==
    \A j \in 1..Len(work_experience) :
       IsYearMonth(work_experience[j].start_date) /\ IsYearMonth(work_experience[j].end_date)

\* C4: calculate_total_experience adds, over the entries with both dates,
\* (end_year - start_year) * 12 + (end_month - start_month) and writes the
\* total T as "<T mod 12> months" when T div 12 is 0, "<T div 12> years"
\* when T mod 12 is 0, and "<T div 12> years <T mod 12> months" otherwise:
\* "0 months", "6 months", "2 years", "1 years 3 months".
C4_TotalAndFormat ==
    (Past("total_experience") /\ PlainDates) =>
       LET T == MonthsTotal
       IN /\ total_experience =
                IF T \div 12 = 0 THEN ToString(T % 12) \o " months"
                ELSE IF T % 12 = 0 THEN ToString(T \div 12) \o " years"
                ELSE ToString(T \div 12) \o " years " \o ToString(T % 12) \o " months"
          /\ T = 0 => total_experience = "0 months"
          /\ T = 6 => total_experience = "6 months"
          /\ T = 24 => total_experience = "2 years"
          /\ T = 15 => total_experience = "1 years 3 months"

\* Two entries, one of them without an end, that add up to 15 months.
C4_FifteenMonths ==
    /\ Past("total_experience") /\ PlainDates
    /\ Len(work_experience) = 2
    /\ MonthsTotal = 15
    /\ total_experience = "1 years 3 months"

Tier(years) ==
    IF years >= 5 THEN "Experienced"
    ELSE IF years >= 2 THEN "Intermediate" ELSE "Fresher"

\* C5, as the code has it: for a work history of well-formed YYYY-MM dates
\* the tier is decided by the sum over the entries of end_year - start_year,
\* the months being ignored: "Experienced" when that sum is 5 or more and
\* "Intermediate" when it is 2, 3 or 4, whatever the months add up to.
C5_TierOfYearDifferences ==
    (Past("experience_level") /\ WellFormedDates /\ YearsTotal # 0) =>
       experience_level = Tier(YearsTotal)

\* C5, as stated: a work history of well-formed dates that adds up to 60
\* months is "Experienced" and one that adds up to 59 months is
\* "Intermediate", whatever the months of the dates are and however the
\* total is split across the entries.
C5_TierOfMonthTotal ==
    (Past("experience_level") /\ WellFormedDates) =>
       /\ MonthsTotal = 60 => experience_level = "Experienced"
       /\ MonthsTotal = 59 => experience_level = "Intermediate"

\* 59 months from June 2015 to May 2020: five years by the years alone.
C5_FiftyNineMonthsExperienced ==
    /\ Past("experience_level") /\ WellFormedDates
    /\ MonthsTotal = 59 /\ YearsTotal = 5
    /\ experience_level = "Experienced"

\* The total of the loop of calculate_experience_level (lines 455-462).
SummedYears == LevelLoop(0, work_experience, 1, now)

\* C6: the text length decides the tier if and only if the summed years
\* are exactly zero, and then gives "Intermediate" above 3000 characters
\* and "Fresher" otherwise; a total that is not zero decides alone:
\* "Experienced" from 5, "Intermediate" from 2, "Fresher" below, negative
\* totals included.
C6_FallbackOnlyAtZero ==
    Past("experience_level") =>
       IF SummedYears = 0
       THEN experience_level = IF Len(text) > 3000 THEN "Intermediate" ELSE "Fresher"
       ELSE experience_level =
               IF SummedYears >= 5 THEN "Experienced"
               ELSE IF SummedYears >= 2 THEN "Intermediate"
               ELSE "Fresher"

\* Inverted dates and a long text: the negative total keeps "Fresher".
C6_NegativeTotalLongText ==
    /\ Past("experience_level")
    /\ SummedYears < 0 /\ Len(text) > 3000
    /\ experience_level = "Fresher"

\* The entries the loops skip: a date is empty or does not parse.
LevelSkips(job) ==
    \/ job.start_date = "" \/ job.end_date = ""
    \/ ~IntParse(First4(job.start_date)).ok
    \/ (job.end_date # "Present" /\ ~IntParse(First4(job.end_date)).ok)
TotalSkips(job) ==
    \/ job.start_date = "" \/ job.end_date = ""
    \/ ~ParseYearMonth(job.start_date).ok
    \/ (job.end_date # "Present" /\ ~ParseYearMonth(job.end_date).ok)

LevelKept == SelectSeq(work_experience, LAMBDA job : ~LevelSkips(job))
TotalKept == SelectSeq(work_experience, LAMBDA job : ~TotalSkips(job))

\* C7: an entry with an empty or unparsable date adds nothing to either
\* total, wherever it is in the list: each calculator gives what it gives
\* for the list without those entries.
C7_SkippedEntriesAddNothing ==
    /\ Past("experience_level") =>
          experience_level = calculate_experience_level(LevelKept, text, now)
    /\ Past("total_experience") =>
          total_experience = calculate_total_experience(TotalKept, now)

\* An entry both calculators skip, ahead of one both count.
C7_SkippedThenCounted ==
    /\ Past("total_experience")
    /\ Len(work_experience) = 2
    /\ LevelSkips(work_experience[1]) /\ TotalSkips(work_experience[1])
    /\ work_experience[1].start_date # "" /\ work_experience[1].end_date # ""
    /\ ~LevelSkips(work_experience[2]) /\ ~TotalSkips(work_experience[2])
    /\ total_experience # "0 months"

Range(xs) == {xs[j] : j \in 1..Len(xs)}
NoDuplicates(xs) == \A i, j \in 1..Len(xs) : i # j => xs[i] # xs[j]
TitledLexicon(category) ==
    {Title(skill_categories[category][k]) : k \in 1..Len(skill_categories[category])}
Occurrences(x, xs) == Cardinality({j \in 1..Len(xs) : xs[j] = x})

\* C8: every category list of extract_skills is without duplicates and
\* holds only title-cased keywords of the lexicon of its category; a
\* keyword of two lexicons (docker, gitlab) is, when matched, in both
\* lists; a text with "Docker" and "docker-compose" has exactly one
\* "Docker" in devops and a "Docker" in tools.
C8_SkillLists ==
    Past("skills") =>
       /\ \A category \in SkillKeys :
             /\ NoDuplicates(skills[category])
             /\ Range(skills[category]) \subseteq TitledLexicon(category)
       /\ \A name \in {"Docker", "Gitlab"} :
             name \in Range(skills.devops) <=> name \in Range(skills.tools)
       /\ (Contains("Docker", text) /\ Contains("docker-compose", text))
             => /\ Occurrences("Docker", skills.devops) = 1
                /\ "Docker" \in Range(skills.tools)

\* The skills of a text with "Docker", "docker-compose" and "GitLab".
C8_DockerTwice ==
    /\ Past("skills")
    /\ Contains("Docker", text) /\ Contains("docker-compose", text)
    /\ Occurrences("Docker", skills.devops) = 1
    /\ "Gitlab" \in Range(skills.devops)
    /\ "Docker" \in Range(skills.tools)

\* keyword is in s with no word character right before it or right after.
WholeWordIn(keyword, s) ==
    \E i \in 1..(Len(s) - Len(keyword) + 1) :
       /\ Sub(s, i, i + Len(keyword) - 1) = keyword
       /\ ~IsWordAt(s, i - 1)
       /\ ~IsWordAt(s, i + Len(keyword))

\* C9: a keyword of a lexicon, "c++" and "c#" included, that is in the
\* text in any letter case as a whole word (no word character on either
\* side, as in "Skills: C++, Python") has its title-cased form in the list
\* of its category, and a keyword that is not in the lowercased text has
\* not.
C9_WholeWordKeywords ==
    Past("skills") =>
       \A category \in SkillKeys :
          \A k \in 1..Len(skill_categories[category]) :
             LET keyword == skill_categories[category][k]
             IN /\ WholeWordIn(keyword, Lower(text))
                      => Title(keyword) \in Range(skills[category])
                /\ ~Contains(keyword, Lower(text))
                      => Title(keyword) \notin Range(skills[category])

\* C10: the engine run twice on one text, in one process or in two, gives
\* the same output both times in every field but the analysis timestamp,
\* the order of every list included.
C10_SameOutputTwice ==
    (run = 2 /\ pc = "done") =>
       \A field \in DOMAIN structured_data \ {"additional_info"} :
          structured_data[field] = first_data[field]

\* C11 (analyze_resume): once the text is extracted, a text that is absent
\* or strips to fewer than 50 characters makes the request fail with HTTP
\* 400, which the except clauses pass on unchanged: no extractor runs and no
\* profile is returned.  A text that strips to 50 characters or more never
\* raises, and the request is answered with the profile.
Extracted == request.active /\ request.temp_path /\ pc # "extract_text"
NothingExtracted ==
    /\ personal_info = NotRun /\ summary = NotRun /\ work_experience = NotRun
    /\ education = NotRun /\ skills = NotRun /\ projects = NotRun
    /\ additional_info = NotRun /\ experience_level = NotRun
    /\ total_experience = NotRun /\ structured_data = NotRun
C11_InsufficientTextIs400 ==
    Extracted =>
        IF Insufficient(text)
        THEN /\ pc \in {"validate", "except", "finally", "responded"}
             /\ NothingExtracted
             /\ request.result = "none"
             /\ pc # "validate" =>
                    request.raised = "HTTPException" /\ request.status_code = 400
        ELSE /\ request.raised = "none"
             /\ pc = "responded" =>
                    /\ request.status_code = 200
                    /\ request.result = "profile"
                    /\ structured_data = Assembled

\* C11 witness: pdfminer raised, the text is "", and the caller got the 400.
C11_PdfErrorAnswered400 ==
    /\ pc = "responded"
    /\ request.pdf_error
    /\ text = ""
    /\ request.status_code = 400

\* C11 witness: a text of exactly 50 characters after strip, with no field in
\* it, is answered with a profile.
C11_FiftyCharactersAnswered ==
    /\ pc = "responded"
    /\ Len(text) > 50 /\ Len(Strip(text)) = 50
    /\ request.result = "profile"
    /\ personal_info = EmptyPersonalInfo

\* The lines of the text the engine runs on.
Lines == SplitChar(text, "\n")
\* The text made of the first n lines of the text.
FirstLines(n) == Join(SubSeq(Lines, 1, n), "\n")
KeywordLine(keywords, i) == ContainsAny(keywords, Lower(Strip(Lines[i])))
\* The first line after line i that has one of the keywords, 0 without one.
FirstAfter(keywords, i) ==
    LET later == {j \in (i + 1)..Len(Lines) : KeywordLine(keywords, j)}
    IN IF later = {} THEN 0 ELSE CHOOSE j \in later : \A k \in later : j <= k

\* C12 (extract_summary): after the first header line, the first later line
\* with a competing section keyword ends the scan, whatever its length and
\* whether or not text has been accumulated: the summary is the summary of
\* the lines before it.
C12_StopsAtSectionLine ==
    LET header == FirstAfter(SummaryHeaders, 0)
        section == FirstAfter(SummarySections, header)
    IN (Past("summary") /\ header > 0 /\ section > 0)
          => summary = extract_summary(FirstLines(section - 1))

\* The state of the loop of extract_work_experience after line i of the text.
RECURSIVE WorkAfter(_)
WorkAfter(i) == IF i = 0 THEN WorkInit ELSE WorkStep(WorkAfter(i - 1), Lines, i)
\* Line i is reached inside the experience section as a line of a job: the
\* scan has not ended, and the line is neither blank, nor a header of the
\* section, nor the header of a competing section.
JobLine(i) ==
    LET before == WorkAfter(i - 1)
    IN /\ before.in_experience_section /\ ~before.stop
       /\ Strip(Lines[i]) # ""
       /\ ~KeywordLine(ExperienceHeaders, i)
       /\ ~KeywordLine(WorkSections, i)

\* C13 (extract_work_experience): inside the experience section every line
\* longer than 5 characters that is reached while no entry is open opens an
\* entry, be it a line without the word "at" and without a separator; when
\* it is the last line of the text, that entry is in the result.
C13_LongLineOpensEntry ==
    Past("work_experience") =>
        \A i \in 1..Len(Lines) :
            (/\ JobLine(i)
             /\ IsEmptyDict(WorkAfter(i - 1).current_job)
             /\ Len(Strip(Lines[i])) > 5)
            => /\ ~IsEmptyDict(WorkAfter(i).current_job)
               /\ i = Len(Lines) => work_experience # <<>>

\* The loop of extract_work_experience with the entry closed at every line
\* after which an entry is open and the next line has the keyword of a
\* competing section.
ClosingStep(st, lines, i) ==
    LET after == WorkStep(st, lines, i)
    IN IF /\ ~after.stop
          /\ ~IsEmptyDict(after.current_job)
          /\ i < Len(lines)
          /\ ContainsAny(WorkSections, Lower(lines[i + 1]))
       THEN [after EXCEPT !.experience = Append(@, after.current_job),
                          !.current_job = EmptyDict]
       ELSE after
RECURSIVE ClosingLoop(_, _, _)
ClosingLoop(st, lines, i) ==
    IF i > Len(lines) THEN st ELSE ClosingLoop(ClosingStep(st, lines, i), lines, i + 1)

\* C14 (extract_work_experience): an entry open at line i, the line that
\* opened it included, is closed and appended at line i when line i+1 has the
\* keyword of a competing section (education, skills, projects,
\* certifications), so that later lines add nothing to it and can open a new
\* entry; the entry open at the end is appended: the result is the opened
\* entries, once each, in opening order.
C14_ClosedBeforeSectionHeader ==
    Past("work_experience") =>
        work_experience = WorkFlush(ClosingLoop(WorkInit, Lines, 1))

\* The loop of extract_projects with the entry closed at every line after
\* which an entry is open and the next line is blank or has the keyword of a
\* competing section.
ClosingProjectStep(st, lines, i) ==
    LET after == ProjectStep(st, lines, i)
    IN IF /\ ~after.stop
          /\ ~IsEmptyDict(after.current_project)
          /\ i < Len(lines)
          /\ (Strip(lines[i + 1]) = ""
              \/ ContainsAny(ProjectSections, Lower(lines[i + 1])))
       THEN [after EXCEPT !.projects = Append(@, after.current_project),
                          !.current_project = EmptyDict]
       ELSE after
RECURSIVE ClosingProjectLoop(_, _, _)
ClosingProjectLoop(st, lines, i) ==
    IF i > Len(lines) THEN st
    ELSE ClosingProjectLoop(ClosingProjectStep(st, lines, i), lines, i + 1)

\* C15 (extract_projects): an open entry is closed and appended as soon as
\* the next line is blank or the header of a competing section, on the title
\* line too: a title followed by a blank line gives an entry with no
\* description and no technologies, and the next line of 5 to 100 characters
\* opens another entry.
C15_ClosedBeforeBlankLine ==
    Past("projects") =>
        projects = ProjectFlush(ClosingProjectLoop(ProjectInit, Lines, 1))

\* The states of the loop of extract_projects on the lines: trace[i + 1] is
\* the state after line i.
RECURSIVE ProjectTrace(_, _, _)
ProjectTrace(trace, lines, i) ==
    IF i > Len(lines) THEN trace
    ELSE ProjectTrace(Append(trace, ProjectStep(trace[i], lines, i)), lines, i + 1)
\* The line is reached inside the project section while an entry is open.
OpenProjectLine(before, line) ==
    /\ before.in_project_section /\ ~before.stop
    /\ ~IsEmptyDict(before.current_project)
    /\ Strip(line) # ""
    /\ ~ContainsAny(ProjectHeaders, Lower(Strip(line)))
    /\ ~ContainsAny(ProjectSections, Lower(Strip(line)))
\* The entry that was open before a line, after the line: still open, or
\* the entry appended last.
ProjectAt(after) ==
    IF IsEmptyDict(after.current_project)
    THEN after.projects[Len(after.projects)]
    ELSE after.current_project
\* The keywords of the lexicon, from the k-th on, that are substrings of
\* the lowercased line, each once, in lexicon order.
RECURSIVE LexiconFrom(_, _)
LexiconFrom(k, line) ==
    IF k > Len(tech_keywords) THEN <<>>
    ELSE (IF Contains(tech_keywords[k], Lower(line)) THEN <<tech_keywords[k]>> ELSE <<>>)
         \o LexiconFrom(k + 1, line)
\* What one line of an open entry changes.
ProjectFrame(cur, new, line) ==
    LET added == SubSeq(new.technologies, Len(cur.technologies) + 1,
                        Len(new.technologies))
    IN /\ new.title = cur.title
       /\ SubSeq(new.technologies, 1, Len(cur.technologies)) = cur.technologies
       /\ IF Len(line) <= 20
          THEN new = cur
          ELSE IF cur.description = ""
               THEN new.description = line /\ added = <<>>
               ELSE /\ new.description = cur.description
                    /\ added = LexiconFrom(1, line)
ProjectFrames(trace, lines) ==
    /\ projects = ProjectFlush(trace[Len(trace)])
    /\ \A i \in 1..Len(lines) :
          OpenProjectLine(trace[i], lines[i]) =>
             ProjectFrame(trace[i].current_project, ProjectAt(trace[i + 1]),
                          Strip(lines[i]))
ProjectFramesOf(lines) == ProjectFrames(ProjectTrace(<<ProjectInit>>, lines, 1), lines)

\* C16 (extract_projects): while an entry is open, the first line longer
\* than 20 characters becomes the description and is not scanned; every
\* later line longer than 20 characters leaves the description as it is and
\* appends to technologies, duplicates included, the keywords of the lexicon
\* found in the lowercased line, in lexicon order; shorter lines change
\* nothing.  The result is what the loop leaves.
C16_DescriptionThenTechnologies == Past("projects") => ProjectFramesOf(Lines)

\* C16 witness: the description line names three technologies and is not
\* scanned; the two lines after it are, and their keywords are kept twice.
C16_ScannedTwice ==
    /\ Past("projects")
    /\ Len(projects) = 1
    /\ projects[1].description = "Backend in Python with AWS and SQL"
    /\ projects[1].technologies = <<"python", "sql", "aws", "python", "sql", "aws">>

\* A line, trimmed and lowercased, has one of the keywords.
HasKeyword(keywords, line) == ContainsAny(keywords, Lower(Strip(line)))

\* The states of the loop of extract_education on the lines: trace[i + 1]
\* is the state after line i.
RECURSIVE EducationTrace(_, _, _)
EducationTrace(trace, lines, i) ==
    IF i > Len(lines) THEN trace
    ELSE EducationTrace(Append(trace, EducationStep(trace[i], lines, i)), lines, i + 1)
\* The line is reached inside the education section as a line of an entry.
EducationLine(before, line) ==
    /\ before.in_education_section /\ ~before.stop
    /\ Strip(line) # ""
    /\ ~HasKeyword(EducationHeaders, line)
    /\ ~HasKeyword(EducationSections, line)
\* The entry that was open before a line, after the line: still open, or
\* the entry appended last.
EducationAt(after) ==
    IF IsEmptyDict(after.current_edu)
    THEN after.education[Len(after.education)]
    ELSE after.current_edu
\* What one line changes: before and after are the states around the line.
EducationFrame(before, after, line) ==
    LET cur == before.current_edu
        is_school == HasKeyword(SchoolWords, line)
    IN IF IsEmptyDict(cur)
       THEN /\ after.education = before.education
            /\ ~IsEmptyDict(after.current_edu) =>
                  /\ EducationLine(before, line)
                  /\ HasKeyword(DegreeWords, line)
                  /\ after.current_edu.school_name = (IF is_school THEN Strip(line) ELSE "")
                  /\ after.current_edu.degree = (IF is_school THEN "" ELSE Strip(line))
                  /\ after.current_edu.major = ""
                  /\ after.current_edu.start_date = ""
       ELSE LET new == EducationAt(after)
            IN /\ new.degree = cur.degree
               /\ new.end_date = cur.end_date
               /\ new.gpa = cur.gpa
               /\ new.major = "" /\ new.start_date = ""
               /\ new.school_name =
                     (IF cur.school_name = "" /\ EducationLine(before, line) /\ is_school
                      THEN Strip(line) ELSE cur.school_name)
               /\ after.education \in
                     {before.education, Append(before.education, new)}
EducationFrames(trace, lines) ==
    /\ education = EducationFlush(trace[Len(trace)])
    /\ \A i \in 1..Len(lines) : EducationFrame(trace[i], trace[i + 1], lines[i])
EducationFramesOf(lines) ==
    EducationFrames(EducationTrace(<<EducationInit>>, lines, 1), lines)

\* C17 (extract_education): an entry opens only on a line of the section
\* that has a degree keyword, and holds that line as school_name when the
\* line has "university" or "college", as degree otherwise, never as both.
\* While the entry is open, school_name is set, from the first line of the
\* entry that has "university" or "college", only when it is empty, and is
\* never overwritten; degree, end_date and gpa do not change, major and
\* start_date stay empty.  The result is what the loop leaves.
C17_EducationFrame == Past("education") => EducationFramesOf(Lines)

\* C17 witness: a degree line opens the entry, the first school line after
\* it fills school_name, the second school line does not replace it.
C17_SchoolFilledOnce ==
    /\ Past("education")
    /\ text = "Education\nBachelor of Science 2018 GPA: 3.8\nState College of Arts\nMaster degree, State University 2020"
    /\ education = <<[degree |-> "Bachelor of Science 2018 GPA: 3.8", major |-> "",
                      school_name |-> "State College of Arts", start_date |-> "",
                      end_date |-> "2018-01", gpa |-> "3.8"]>>

\* The list a header line names, "" for a line that is not a header.
HeaderOf(i) ==
    LET low == Lower(Strip(Lines[i]))
    IN IF StartsWith(low, "certificat") THEN "certifications"
       ELSE IF StartsWith(low, "language") THEN "languages"
       ELSE IF StartsWith(low, "award") \/ Contains("honor", low) THEN "awards"
       ELSE ""
\* The list of the last header before line i, "" before the first header.
LastHeader(i) ==
    LET headers == {j \in 1..(i - 1) : HeaderOf(j) # ""}
    IN IF headers = {} THEN ""
       ELSE HeaderOf(CHOOSE j \in headers : \A k \in headers : k <= j)
\* The trimmed lines of the given line numbers, in the order of the text.
RECURSIVE LinesOf(_)
LinesOf(S) ==
    IF S = {} THEN <<>>
    ELSE LET last == CHOOSE j \in S : \A k \in S : k <= j
         IN Append(LinesOf(S \ {last}), Strip(Lines[last]))

\* C18 (extract_additional_info): each list holds, in the order of the text,
\* the trimmed lines longer than 2 characters that are not headers and come
\* after a header, the last header before the line being the header of that
\* list: header lines and the lines before the first header are in no list.
C18_LinesToLastHeader ==
    Past("additional_info") =>
        \A s \in AdditionalKeys :
            additional_info[s] =
                LinesOf({i \in 1..Len(Lines) :
                           /\ HeaderOf(i) = ""
                           /\ Len(Strip(Lines[i])) > 2
                           /\ LastHeader(i) = s})

\* C18 witness: a line before the first header is dropped, and a second
\* header redirects the line after it.
C18_Redirected ==
    /\ Past("additional_info")
    /\ text = "  Spanish  \nCertifications\nLanguages:\n  Spanish  "
    /\ additional_info =
          [certifications |-> <<>>, languages |-> <<"Spanish">>, awards |-> <<>>]

\* A line whose trimmed form is 2 to 50 characters of letters, whitespace,
\* periods and hyphens, without an excluded keyword.
NameLine(i) ==
    LET s == Strip(Lines[i])
    IN /\ Len(s) >= 2 /\ Len(s) <= 50
       /\ ~ContainsAny(NameExcluded, Lower(s))
       /\ \A k \in 1..Len(s) : At(s, k) \in Letters \cup Spaces \cup {".", "-"}

\* C19 (extract_personal_info): full_name is the first of the first 10 lines
\* whose trimmed form is 2 to 50 characters long, bounds included, has no
\* excluded keyword and only letters, whitespace, periods and hyphens;
\* first_name is its first token, last_name its last token, or "" when
\* there is one token; without such a line the three fields are "".
C19_FirstNameLine ==
    Past("personal_info") =>
        LET names == {i \in 1..Len(Lines) : i <= 10 /\ NameLine(i)}
            first == CHOOSE i \in names : \A j \in names : i <= j
            tokens == SplitWhite(Strip(Lines[first]))
        IN IF names = {}
           THEN /\ personal_info.full_name = ""
                /\ personal_info.first_name = ""
                /\ personal_info.last_name = ""
           ELSE /\ personal_info.full_name = Strip(Lines[first])
                /\ personal_info.first_name = tokens[1]
                /\ personal_info.last_name =
                      (IF Len(tokens) > 1 THEN tokens[Len(tokens)] ELSE "")

\* C20 (calculate_experience_level in analyze_resume): on the entries that
\* extract_work_experience returns for the text, no entry adds to the year
\* total, so the level depends on the length of the text only:
\* "Intermediate" above 3000 characters and "Fresher" otherwise, never
\* "Experienced".
C20_LevelByLengthOnly ==
    /\ work_experience = extract_work_experience(text)
    /\ \A j \in 1..Len(work_experience) :
          \A total \in {0, 3} : LevelStep(total, work_experience[j], now) = total
    /\ Past("experience_level") =>
          experience_level = (IF Len(text) > 3000 THEN "Intermediate" ELSE "Fresher")

\* C20 witness: a text of 3001 characters whose entry has two dates that
\* int() parses, and the level is that of the length.
C20_ParsedDatesLongText ==
    /\ Past("experience_level")
    /\ Len(text) = 3001
    /\ Len(work_experience) = 1
    /\ work_experience[1].start_date = "-01"
    /\ work_experience[1].end_date = "-01"
    /\ experience_level = "Intermediate"

\* The states of the loop of extract_work_experience on the lines:
\* trace[i + 1] is the state after line i.
RECURSIVE WorkTrace(_, _, _)
WorkTrace(trace, lines, i) ==
    IF i > Len(lines) THEN trace
    ELSE WorkTrace(Append(trace, WorkStep(trace[i], lines, i)), lines, i + 1)
\* The lines at which an entry opens: none is open before, one is after.
OpenedAt(trace, lines) ==
    {i \in 1..Len(lines) :
        IsEmptyDict(trace[i].current_job) /\ ~IsEmptyDict(trace[i + 1].current_job)}
\* No line has both a header keyword of the experience section and one of
\* the keywords education and skills.
NoMixedHeader(lines) ==
    \A i \in 1..Len(lines) :
        ~(/\ HasKeyword({"experience", "employment", "work history"}, lines[i])
          /\ HasKeyword({"education", "skills"}, lines[i]))
AtMostOneEntry(trace, lines) ==
    /\ work_experience = WorkFlush(trace[Len(trace)])
    /\ Cardinality(OpenedAt(trace, lines)) <= 1
    /\ Len(work_experience) <= 1
AtMostOneEntryOf(lines) ==
    NoMixedHeader(lines) => AtMostOneEntry(WorkTrace(<<WorkInit>>, lines, 1), lines)

\* C21 (extract_work_experience): on a text without a line that has both a
\* header keyword of the experience section and one of education, skills,
\* at most one entry opens and the result has at most one entry: the job
\* lines after the first entry are its responsibilities or are dropped.
C21_AtMostOneEntry == Past("work_experience") => AtMostOneEntryOf(Lines)

\* C21 witness: three job lines and a bullet in one section, one entry.
C21_JobLinesFolded ==
    /\ Past("work_experience")
    /\ text = "Experience\nDev at Initech\nDev at Initech\n> Built REST APIs in Python\nDev at Initech"
    /\ Len(work_experience) = 1
    /\ work_experience[1].responsibilities = <<"Built REST APIs in Python">>

\* With a line that is a header of the experience section and has "skills",
\* a second entry opens.
C21_SecondEntryAfterMixedHeader ==
    /\ Past("work_experience")
    /\ ~NoMixedHeader(Lines)
    /\ Len(work_experience) = 2

\* C22: every temporary file analyze_resume creates is deleted by the time
\* the request completes, on every exit path (success, the 400 for
\* insufficient text, a 500, a failure while reading the upload or writing
\* it to the temporary file), and a request rejected for a filename that
\* does not end in .pdf creates no temporary file.
Completed == pc = "responded"

RejectedFilename == ~EndsWith(Lower(request.filename), ".pdf")

C22_TempFileDeleted ==
    /\ Completed => request.temp_file # "exists"
    /\ RejectedFilename => request.temp_file = "none"

\* The part of C22 about rejected filenames, and the file of a request whose
\* upload was read and written, which the finally clause unlinks unless
\* os.unlink itself fails.
C22_RejectedCreatesNoFile ==
    RejectedFilename =>
        /\ request.temp_file = "none"
        /\ Completed => request.raised = "HTTPException" /\ request.status_code = 400

\* A request answered 500 after the upload could not be read, with its
\* temporary file still on disk and temp_path never assigned.
C22_LeakedAfterReadFailure ==
    /\ Completed
    /\ request.status_code = 500
    /\ ~request.temp_path
    /\ request.temp_file = "exists"

====
